---------------------------- MODULE Spec2Model ----------------------------
(***************************************************************************)
(* A model of the smart chunker (src/src/services/smart_chunker.py) and of *)
(* the document processor's chunking wrappers                              *)
(* (src/src/services/document_processor.py).                               *)
(*                                                                         *)
(* A Python str is a sequence of one-character strings, so that len, slicing, *)
(* strip, split, find and the regular expressions of the source are        *)
(* computed character by character.  Sequences are 1-based here and        *)
(* 0-based in the source: offsets stored in records (start, end, index)    *)
(* keep the source's 0-based values.                                       *)
(***************************************************************************)
EXTENDS Integers, Sequences, FiniteSets, TLC

VARIABLES
    pc,                 \* where the driver is: which operation ran last
    chunker,            \* the SmartChunker instance (its configuration), or NoChunker
    text,               \* the text argument of the operation under way
    document_type,      \* the document_type argument / the detected type
    faults,             \* table-pattern family -> match number that raises (0: none)
    detected_tables,    \* what _detect_table_structures returned
    chunks,             \* the raw chunk strings a segmenter returned
    overlapped_chunks,  \* what _add_intelligent_overlap returned
    final_chunks,       \* what create_chunks returned
    processed_chunks,   \* what DocumentProcessor._create_smart_chunks returned
    instances,          \* the SmartChunker instances several callers share
    calls,              \* caller -> the frame of its create_chunks call
    processor,          \* the DocumentProcessor (chunk_size, chunk_overlap), or NoProcessor
    simple_start        \* the cursor `start` of the loop of _create_simple_chunks

vars == <<pc, chunker, text, document_type, faults, detected_tables, chunks,
          overlapped_chunks, final_chunks, processed_chunks, instances, calls,
          processor, simple_start>>

-----------------------------------------------------------------------------
(* Characters and the str methods the source uses *)

Whitespace == {" ", "\n", "\t"}

Digits == {"0", "1", "2", "3", "4", "5", "6", "7", "8", "9"}

UpperLetters == <<"A", "B", "C", "D", "E", "F", "G", "H", "I", "J", "K", "L", "M",
                  "N", "O", "P", "Q", "R", "S", "T", "U", "V", "W", "X", "Y", "Z">>

LowerLetters == <<"a", "b", "c", "d", "e", "f", "g", "h", "i", "j", "k", "l", "m",
                  "n", "o", "p", "q", "r", "s", "t", "u", "v", "w", "x", "y", "z">>

Range(f) == {f[i] : i \in DOMAIN f}

isupper(c) == c \in Range(UpperLetters)

islower(c) == c \in Range(LowerLetters)

isalpha(c) == isupper(c) \/ islower(c)

isdigit(c) == c \in Digits

isspace(c) == c \in Whitespace

lower_char(c) ==
    IF isupper(c)
    THEN LowerLetters[CHOOSE i \in DOMAIN UpperLetters : UpperLetters[i] = c]
    ELSE c

lower(s) == [i \in DOMAIN s |-> lower_char(s[i])]

Min(S) == CHOOSE x \in S : \A y \in S : x <= y

Max(S) == CHOOSE x \in S : \A y \in S : x >= y

\* The first index >= i of s whose character is not in C (Len(s) + 1 if none).
RunEnd(s, i, C) ==
    LET out == {j \in i..Len(s) : s[j] \notin C}
    IN  IF out = {} THEN Len(s) + 1 ELSE Min(out)

\* The last index <= i of s whose character is not in C (0 if none).
RunStart(s, i, C) ==
    LET out == {j \in 1..i : s[j] \notin C}
    IN  IF out = {} THEN 0 ELSE Max(out)

\* s.strip(' '): only spaces are removed
strip_spaces(s) ==
    LET a == RunEnd(s, 1, {" "})
        b == RunStart(s, Len(s), {" "})
    IN  IF a > b THEN <<>> ELSE SubSeq(s, a, b)

\* str.strip()
strip(s) ==
    LET a == RunEnd(s, 1, Whitespace)
        b == RunStart(s, Len(s), Whitespace)
    IN  IF a > b THEN <<>> ELSE SubSeq(s, a, b)

\* sub occurs in s at (1-based) index i
OccursAt(sub, s, i) ==
    /\ i >= 1
    /\ i + Len(sub) - 1 <= Len(s)
    /\ \A k \in 1..Len(sub) : s[i + k - 1] = sub[k]

\* sub in s
contains(s, sub) == \E i \in 1..(Len(s) - Len(sub) + 1) : OccursAt(sub, s, i)

\* s.count(c) for a one-character c
count(s, c) == Cardinality({i \in DOMAIN s : s[i] = c})

\* s.endswith(suffix)
endswith(s, suffix) ==
    /\ Len(suffix) <= Len(s)
    /\ SubSeq(s, Len(s) - Len(suffix) + 1, Len(s)) = suffix

\* s.startswith(prefix)
startswith(s, prefix) == OccursAt(prefix, s, 1)

RECURSIVE join(_, _)
\* sep.join(parts)
join(parts, sep) ==
    IF Len(parts) = 0 THEN <<>>
    ELSE IF Len(parts) = 1 THEN parts[1]
    ELSE LET h == Len(parts) \div 2
         IN  join(SubSeq(parts, 1, h), sep) \o sep \o join(SubSeq(parts, h + 1, Len(parts)), sep)

\* s.split(c) for a one-character c: the pieces between the occurrences of c
split(s, c) ==
    LET at == {i \in DOMAIN s : s[i] = c}
        cuts == {0} \cup at \cup {Len(s) + 1}
        n == Cardinality(cuts) - 1
        nth(k) == CHOOSE i \in cuts : Cardinality({j \in cuts : j < i}) = k
    IN  [k \in 1..n |-> SubSeq(s, nth(k - 1) + 1, nth(k) - 1)]

\* The subsequence of the strings of xs that are not blank
NonBlank(x) == strip(x) # <<>>

SelectNonBlank(xs) == SelectSeq(xs, NonBlank)

\* [p.strip() for p in xs if p.strip()]
StripAll(xs) == LET kept == SelectNonBlank(xs) IN [i \in DOMAIN kept |-> strip(kept[i])]

RECURSIVE SelectMatches(_, _)
\* The scan of re.finditer / re.split / re.findall: ends[j] is the index after the
\* match that starts at j (0: none starts there); from index pos on, the leftmost
\* match is taken and the scan resumes after it.  The matches as <<start, end>>.
SelectMatches(ends, pos) ==
    LET from == {j \in pos..Len(ends) : ends[j] > 0}
    IN  IF from = {} THEN <<>>
        ELSE <<<<Min(from), ends[Min(from)]>>>> \o SelectMatches(ends, ends[Min(from)])

\* re.split: the pieces of s between the matches ms
PiecesBetween(s, ms) ==
    [k \in 1..(Len(ms) + 1) |->
        SubSeq(s, IF k = 1 THEN 1 ELSE ms[k - 1][2],
                  IF k <= Len(ms) THEN ms[k][1] - 1 ELSE Len(s))]

RECURSIVE Flatten(_)
\* The concatenation of the sequences of xss
Flatten(xss) ==
    IF Len(xss) = 0 THEN <<>>
    ELSE IF Len(xss) = 1 THEN xss[1]
    ELSE LET h == Len(xss) \div 2
         IN  Flatten(SubSeq(xss, 1, h)) \o Flatten(SubSeq(xss, h + 1, Len(xss)))

RECURSIVE Sum(_)
Sum(xs) ==
    IF Len(xs) = 0 THEN 0
    ELSE IF Len(xs) = 1 THEN xs[1]
    ELSE LET h == Len(xs) \div 2
         IN  Sum(SubSeq(xs, 1, h)) + Sum(SubSeq(xs, h + 1, Len(xs)))

-----------------------------------------------------------------------------
(* The structure patterns of SmartChunker.__init__ *)

SentencePunct == {".", "!", "?"}

\* self.sentence_pattern = r'[.!?]+\s+' matched at index i: the index after the
\* match, 0 when there is no match at i.
sentence_pattern(s, i) ==
    IF i <= Len(s) /\ s[i] \in SentencePunct
    THEN LET j == RunEnd(s, i, SentencePunct)
         IN  IF j <= Len(s) /\ s[j] \in Whitespace
             THEN RunEnd(s, j, Whitespace)
             ELSE 0
    ELSE 0

\* re.split(self.sentence_pattern, s)
split_sentences(s) ==
    PiecesBetween(s, SelectMatches([j \in DOMAIN s |-> sentence_pattern(s, j)], 1))

-----------------------------------------------------------------------------
(* OverlapComposer: _add_intelligent_overlap and _extract_meaningful_overlap *)

RECURSIVE OverlapLoop(_, _, _, _)
\* The loop of _extract_meaningful_overlap over reversed(sentences), when it
\* reaches sentences[k] with `overlap` accumulated so far.
OverlapLoop(sentences, k, overlap, max_overlap) ==
    IF k = 0 THEN overlap
    ELSE LET sentence == strip(sentences[k])
         IN  IF sentence = <<>>
             THEN OverlapLoop(sentences, k - 1, overlap, max_overlap)
             ELSE IF Len(overlap) + Len(sentence) + 1 <= max_overlap
                  THEN OverlapLoop(sentences, k - 1,
                                   IF overlap # <<>>
                                   THEN sentence \o <<".", " ">> \o overlap
                                   ELSE sentence,
                                   max_overlap)
                  ELSE overlap

\* The overlap the loop builds from all the sentences, stripped
OverlapOfSentences(sentences, max_overlap) ==
    strip(OverlapLoop(sentences, Len(sentences), <<>>, max_overlap))

_extract_meaningful_overlap(t, max_overlap) ==
    IF Len(t) <= max_overlap THEN t
    ELSE OverlapOfSentences(split_sentences(t), max_overlap)

\* The separator between the overlap and the chunk: the two characters of "\\n"
OverlapSeparator == <<"\\", "n">>

\* The overlap put behind the chunk
WithOverlapBehind(overlap_text, current_chunk) ==
    IF overlap_text # <<>> THEN current_chunk \o OverlapSeparator \o overlap_text
    ELSE current_chunk

\* overlap_text + "\\n" + current_chunk, or current_chunk when there is no overlap
WithOverlap(overlap_text, current_chunk) ==
    IF overlap_text # <<>> THEN overlap_text \o OverlapSeparator \o current_chunk
    ELSE current_chunk

_add_intelligent_overlap(self, cs) ==
    IF Len(cs) <= 1 \/ self.overlap_size <= 0 THEN cs
    ELSE [i \in 1..Len(cs) |->
            IF i = 1 THEN cs[1]
            ELSE WithOverlap(_extract_meaningful_overlap(cs[i - 1], self.overlap_size), cs[i])]

-----------------------------------------------------------------------------
(* Finalizer: _classify_chunk, _calculate_quality_score, _finalize_chunks *)

\* re.search(r'\|[-\s|:]+\|', t): a pipe, one or more of - | : or whitespace, a pipe
MarkdownSeparatorChars == {"-", "|", ":"} \cup Whitespace

has_separator_row(t) ==
    \E i \in DOMAIN t : \E j \in DOMAIN t :
        /\ t[i] = "|"
        /\ t[j] = "|"
        /\ j >= i + 2
        /\ \A k \in (i + 1)..(j - 1) : t[k] \in MarkdownSeparatorChars

\* r'\\d+\\.' matched at index i: a backslash, one or more letters d, a backslash
\* and any character but a newline.  The index after the match, 0 if none.
list_marker_pattern(t, i) ==
    IF i + 1 <= Len(t) /\ t[i] = "\\" /\ t[i + 1] = "d"
    THEN LET j == RunEnd(t, i + 1, {"d"})
         IN  IF j + 1 <= Len(t) /\ t[j] = "\\" /\ t[j + 1] # "\n"
             THEN j + 2
             ELSE 0
    ELSE 0

\* len(re.findall(r'\\d+\\.', t))
CountListMarkers(t) ==
    Len(SelectMatches([j \in DOMAIN t |-> list_marker_pattern(t, j)], 1))

SectionWords == {<<"s", "e", "c", "t", "i", "o", "n">>,
                 <<"a", "r", "t", "i", "c", "l", "e">>,
                 <<"c", "h", "a", "p", "t", "e", "r">>}

\* len(t.split('. ')): one more than the occurrences of ". "
CountDotSpaceParts(t) ==
    1 + Cardinality({i \in 1..(Len(t) - 1) : t[i] = "." /\ t[i + 1] = " "})

_classify_chunk(t) ==
    IF count(t, "|") > 4
    THEN IF contains(t, <<"T", "A", "B", "L", "E", "A", "U">>) THEN "azure_table"
         ELSE IF has_separator_row(t) THEN "markdown_table"
         ELSE "formatted_table"
    ELSE IF CountListMarkers(t) > 2 THEN "list"
    ELSE IF \E w \in SectionWords : startswith(lower(t), w) THEN "section_header"
    ELSE IF CountDotSpaceParts(t) > 5 THEN "paragraph"
    ELSE "fragment"

\* The score returned as computed, without the clamp
UnclampedScore(score) == score

\* The clamp max(0.0, min(1.0, score)), on scores counted in tenths
ClampScore(score) == IF score < 0 THEN 0 ELSE IF score > 10 THEN 10 ELSE score

\* rstrip(): the text without its trailing whitespace
rstrip(s) == SubSeq(s, 1, RunStart(s, Len(s), Whitespace))

\* _calculate_quality_score, in tenths (1.0 is 10).  self.target_size > 0:
\* len / target < 0.3 is 10 * len < 3 * target, len / target > 2.0 is len > 2 * target.
_calculate_quality_score(self, t) ==
    LET size_penalty == IF 10 * Len(t) < 3 * self.target_size \/ Len(t) > 2 * self.target_size
                        THEN 3 ELSE 0
        end_bonus == IF rstrip(t) # <<>> /\ rstrip(t)[Len(rstrip(t))] \in SentencePunct
                     THEN 1 ELSE 0
        start_penalty == IF strip(t) # <<>> /\ islower(strip(t)[1]) THEN 2 ELSE 0
    IN  ClampScore(10 - size_penalty + end_bonus - start_penalty)

\* _finalize_chunks numbering the chunks from 1
finalize_chunks_from_one(self, cs) ==
    [i \in 1..Len(cs) |->
        [index |-> i,
         text |-> strip(cs[i]),
         length |-> Len(cs[i]),
         start_pos |-> 0,
         end_pos |-> Len(cs[i]),
         chunk_type |-> _classify_chunk(cs[i]),
         quality_score |-> _calculate_quality_score(self, cs[i])]]

_finalize_chunks(self, cs) ==
    [i \in 1..Len(cs) |->
        [index |-> i - 1,
         text |-> strip(cs[i]),
         length |-> Len(cs[i]),
         start_pos |-> 0,
         end_pos |-> Len(cs[i]),
         chunk_type |-> _classify_chunk(cs[i]),
         quality_score |-> _calculate_quality_score(self, cs[i])]]

-----------------------------------------------------------------------------
(* Narrative, sentence, semantic and simple segmenters *)

\* self.paragraph_pattern = r'\n\s*\n' matched at index i: a newline, then the
\* whitespace run up to its last newline.  The index after the match, 0 if none.
paragraph_pattern(s, i) ==
    IF i <= Len(s) /\ s[i] = "\n"
    THEN LET r == RunEnd(s, i + 1, Whitespace)
             last == {k \in (i + 1)..(r - 1) : s[k] = "\n"}
         IN  IF last = {} THEN 0 ELSE Max(last) + 1
    ELSE 0

\* re.split(self.paragraph_pattern, s)
split_paragraphs(s) ==
    PiecesBetween(s, SelectMatches([j \in DOMAIN s |-> paragraph_pattern(s, j)], 1))

RECURSIVE SentencePackLoop(_, _, _, _, _)
\* The loop of _split_by_sentences at sentences[k]
SentencePackLoop(self, sentences, k, cs, current_chunk) ==
    IF k > Len(sentences)
    THEN IF current_chunk # <<>> THEN Append(cs, strip(current_chunk)) ELSE cs
    ELSE LET sentence == sentences[k]
         IN  IF Len(current_chunk) + Len(sentence) + 1 <= self.target_size
             THEN SentencePackLoop(self, sentences, k + 1, cs,
                                   IF current_chunk # <<>>
                                   THEN current_chunk \o <<" ">> \o sentence
                                   ELSE sentence)
             ELSE SentencePackLoop(self, sentences, k + 1,
                                   IF current_chunk # <<>>
                                   THEN Append(cs, strip(current_chunk))
                                   ELSE cs,
                                   sentence)

_split_by_sentences(self, t) ==
    SentencePackLoop(self, StripAll(split_sentences(t)), 1, <<>>, <<>>)

\* The separator _narrative_chunking puts between paragraphs: the four
\* characters of "\\n\\n"
ParagraphJoiner == <<"\\", "n", "\\", "n">>

RECURSIVE NarrativeLoop(_, _, _, _, _)
\* The loop of _narrative_chunking at paragraphs[k]
NarrativeLoop(self, paragraphs, k, cs, current_chunk) ==
    IF k > Len(paragraphs)
    THEN IF current_chunk # <<>> THEN Append(cs, strip(current_chunk)) ELSE cs
    ELSE LET paragraph == paragraphs[k]
         IN  IF Len(current_chunk) + Len(paragraph) + 2 > self.target_size
             THEN IF current_chunk # <<>>
                  THEN NarrativeLoop(self, paragraphs, k + 1,
                                     Append(cs, strip(current_chunk)), paragraph)
                  ELSE NarrativeLoop(self, paragraphs, k + 1,
                                     IF Len(paragraph) > self.max_size
                                     THEN cs \o _split_by_sentences(self, paragraph)
                                     ELSE Append(cs, paragraph),
                                     <<>>)
             ELSE NarrativeLoop(self, paragraphs, k + 1, cs,
                                IF current_chunk # <<>>
                                THEN current_chunk \o ParagraphJoiner \o paragraph
                                ELSE paragraph)

\* Every paragraph made a chunk of its own, nothing packed
narrative_chunk_per_paragraph(self, t) == StripAll(split_paragraphs(t))

_narrative_chunking(self, t) ==
    NarrativeLoop(self, StripAll(split_paragraphs(t)), 1, <<>>, <<>>)

topic_change_indicators ==
    {<<"p", "a", "r", " ", "a", "i", "l", "l", "e", "u", "r", "s">>,
     <<"d", "'", "a", "u", "t", "r", "e", " ", "p", "a", "r", "t">>,
     <<"e", "n", " ", "o", "u", "t", "r", "e">>,
     <<"c", "e", "p", "e", "n", "d", "a", "n", "t">>,
     <<"n", "é", "a", "n", "m", "o", "i", "n", "s">>,
     <<"t", "o", "u", "t", "e", "f", "o", "i", "s">>,
     <<"e", "n", " ", "r", "e", "v", "a", "n", "c", "h", "e">>,
     <<"d", "e", " ", "p", "l", "u", "s">>,
     <<"f", "u", "r", "t", "h", "e", "r", "m", "o", "r", "e">>,
     <<"h", "o", "w", "e", "v", "e", "r">>,
     <<"m", "o", "r", "e", "o", "v", "e", "r">>,
     <<"n", "e", "v", "e", "r", "t", "h", "e", "l", "e", "s", "s">>}

RECURSIVE SemanticLoop(_, _, _, _, _)
\* The loop of _semantic_chunking at sentences[k]
SemanticLoop(self, sentences, k, cs, current_chunk) ==
    IF k > Len(sentences)
    THEN IF current_chunk # <<>> THEN Append(cs, strip(current_chunk)) ELSE cs
    ELSE LET sentence == strip(sentences[k])
             topic_change == \E w \in topic_change_indicators : contains(lower(sentence), w)
         IN  IF sentence = <<>>
             THEN SemanticLoop(self, sentences, k + 1, cs, current_chunk)
             ELSE IF \/ /\ topic_change
                        /\ current_chunk # <<>>
                        /\ Len(current_chunk) > self.target_size \div 2
                     \/ Len(current_chunk) + Len(sentence) > self.target_size
                  THEN SemanticLoop(self, sentences, k + 1,
                                    IF current_chunk # <<>>
                                    THEN Append(cs, strip(current_chunk))
                                    ELSE cs,
                                    sentence)
                  ELSE SemanticLoop(self, sentences, k + 1, cs,
                                    IF current_chunk # <<>>
                                    THEN current_chunk \o <<" ">> \o sentence
                                    ELSE sentence)

_semantic_chunking(self, t) == SemanticLoop(self, split_sentences(t), 1, <<>>, <<>>)

\* t.rfind(' ', start, end_) with 0-based offsets: -1 if there is none
rfind_space(t, start, end_) ==
    LET at == {k \in start..(end_ - 1) : t[k + 1] = " "}
    IN  IF at = {} THEN -1 ELSE Max(at)

\* t.find(' ', start) with 0-based offsets: -1 if there is none
find_space(t, start) ==
    LET at == {k \in start..(Len(t) - 1) : t[k + 1] = " "}
    IN  IF at = {} THEN -1 ELSE Min(at)

\* The end of the chunk when a space at start itself is taken as the last space
SimpleChunkEndAtAnySpace(self, t, start) ==
    LET end0 == IF start + self.target_size < Len(t) THEN start + self.target_size ELSE Len(t)
    IN  IF end0 < Len(t) /\ ~isspace(t[end0 + 1])
        THEN LET last_space == rfind_space(t, start, end0)
                 next_space == find_space(t, end0)
             IN  IF last_space >= start THEN last_space
                 ELSE IF next_space # -1 /\ next_space - start <= self.max_size
                      THEN next_space
                      ELSE end0
        ELSE end0

\* Where one iteration of _simple_chunking's loop ends its chunk (0-based)
SimpleChunkEnd(self, t, start) ==
    LET end0 == IF start + self.target_size < Len(t) THEN start + self.target_size ELSE Len(t)
    IN  IF end0 < Len(t) /\ ~isspace(t[end0 + 1])
        THEN LET last_space == rfind_space(t, start, end0)
                 next_space == find_space(t, end0)
             IN  IF last_space > start THEN last_space
                 ELSE IF next_space # -1 /\ next_space - start <= self.max_size
                      THEN next_space
                      ELSE end0
        ELSE end0

RECURSIVE SimpleLoop(_, _, _, _)
\* The while loop of _simple_chunking (self.target_size >= 1, so end_ > start)
SimpleLoop(self, t, start, cs) ==
    IF start >= Len(t) THEN cs
    ELSE LET end_ == SimpleChunkEnd(self, t, start)
             chunk_text == strip(SubSeq(t, start + 1, end_))
             cs2 == IF chunk_text # <<>> THEN Append(cs, chunk_text) ELSE cs
         IN  IF end_ >= Len(t) THEN cs2 ELSE SimpleLoop(self, t, end_, cs2)

_simple_chunking(self, t) == SimpleLoop(self, t, 0, <<>>)

-----------------------------------------------------------------------------
(* Regular-expression matching: each pattern of the source is an operator     *)
(* giving, for a start index i, the index after the match (0: no match at i). *)
(* Every pattern here consumes at least one character.                        *)

\* ^ under re.MULTILINE: i is the start of the text or follows a newline
at_line_start(s, i) == i = 1 \/ (i >= 2 /\ i - 1 <= Len(s) /\ s[i - 1] = "\n")

WordChars == Range(UpperLetters) \cup Range(LowerLetters) \cup Digits \cup {"_"}

Letters == Range(UpperLetters) \cup Range(LowerLetters)

\* word\s+\d+ at i
KeywordNumber(word, s, i) ==
    IF OccursAt(word, s, i)
    THEN LET a == i + Len(word)
             b == RunEnd(s, a, Whitespace)
             c == RunEnd(s, b, Digits)
         IN  IF b > a /\ c > b THEN c ELSE 0
    ELSE 0

\* ^word\s+\w+ at i
DeclarationKeyword(word, s, i) ==
    IF at_line_start(s, i) /\ OccursAt(word, s, i)
    THEN LET a == i + Len(word)
             b == RunEnd(s, a, Whitespace)
             c == RunEnd(s, b, WordChars)
         IN  IF b > a /\ c > b THEN c ELSE 0
    ELSE 0

\* The patterns of _legal_chunking, _code_chunking and self.section_patterns
\* (the latter are matched with re.IGNORECASE: on the lowered text).
MatchAt(kind, s, i) ==
    LET b == RunEnd(s, i, Whitespace)   \* after ^\s*
    IN  CASE kind = "legal_article" -> KeywordNumber(<<"A", "r", "t", "i", "c", "l", "e">>, s, i)
          [] kind = "legal_section" -> KeywordNumber(<<"S", "e", "c", "t", "i", "o", "n">>, s, i)
          [] kind = "legal_clause" -> KeywordNumber(<<"C", "l", "a", "u", "s", "e">>, s, i)
          [] kind = "legal_letter_item" ->
                IF /\ at_line_start(s, i)
                   /\ b + 2 <= Len(s)
                   /\ s[b] = "("
                   /\ islower(s[b + 1])
                   /\ s[b + 2] = ")"
                THEN b + 3 ELSE 0
          [] kind = "legal_number_item" ->
                LET c == RunEnd(s, b, Digits)
                IN  IF at_line_start(s, i) /\ c > b /\ c <= Len(s) /\ s[c] = ")"
                    THEN c + 1 ELSE 0
          [] kind = "code_def" -> DeclarationKeyword(<<"d", "e", "f">>, s, i)
          [] kind = "code_class" -> DeclarationKeyword(<<"c", "l", "a", "s", "s">>, s, i)
          [] kind = "code_function" ->
                DeclarationKeyword(<<"f", "u", "n", "c", "t", "i", "o", "n">>, s, i)
          [] kind = "code_public_class" ->
                IF at_line_start(s, i) /\ OccursAt(<<"p", "u", "b", "l", "i", "c">>, s, i)
                THEN LET c == RunEnd(s, i + 6, Whitespace)
                     IN  IF c > i + 6 /\ OccursAt(<<"c", "l", "a", "s", "s">>, s, c)
                         THEN c + 5 ELSE 0
                ELSE 0
          [] kind = "section_keyword" ->
                IF at_line_start(s, i)
                THEN LET ends == {KeywordNumber(w, s, b) :
                                    w \in {<<"s", "e", "c", "t", "i", "o", "n">>,
                                           <<"a", "r", "t", "i", "c", "l", "e">>,
                                           <<"c", "h", "a", "p", "i", "t", "r", "e">>,
                                           <<"c", "h", "a", "p", "t", "e", "r">>}}
                     IN  Max(ends)
                ELSE 0
          [] kind = "section_numbered" ->
                LET c == RunEnd(s, b, Digits)
                    d == RunEnd(s, c + 1, Whitespace)
                IN  IF /\ at_line_start(s, i)
                       /\ c > b
                       /\ c <= Len(s)
                       /\ s[c] = "."
                       /\ d > c + 1
                       /\ d <= Len(s)
                       /\ s[d] \in Letters
                    THEN d + 1 ELSE 0
          [] kind = "section_lettered" ->
                LET c == RunEnd(s, b, Letters)
                    d == RunEnd(s, c + 1, Whitespace)
                IN  IF /\ at_line_start(s, i)
                       /\ c > b
                       /\ c <= Len(s)
                       /\ s[c] = "."
                       /\ d > c + 1
                    THEN d ELSE 0
          [] kind = "section_markdown" ->
                LET c == RunEnd(s, b, {"#"})
                    d == RunEnd(s, c, Whitespace)
                IN  IF at_line_start(s, i) /\ c > b /\ d > c THEN d ELSE 0

\* re.finditer(pattern, s): the matches as <<start, end>>, 1-based start and
\* the index after the match
FindIter(kind, s) == SelectMatches([j \in DOMAIN s |-> MatchAt(kind, s, j)], 1)

\* The start of every match of ms, 0-based
StartsOf(ms) == [k \in DOMAIN ms |-> ms[k][1] - 1]

\* match.start() of every match, 0-based
MatchStarts(kind, s) == StartsOf(FindIter(kind, s))

\* xs sorted by the integer keys[i] of each xs[i], equal keys keeping their
\* order (list.sort is stable)
SortedBy(xs, keys) ==
    LET n == Len(xs)
        rank == [i \in 1..n |->
                    1 + Cardinality({j \in 1..n :
                            keys[j] < keys[i] \/ (keys[j] = keys[i] /\ j < i)})]
    IN  [p \in 1..n |-> xs[CHOOSE i \in 1..n : rank[i] = p]]

-----------------------------------------------------------------------------
(* DocumentTypeClassifier: _detect_document_type *)

SampleSize == 2000

LegalKeywords == {<<"a", "r", "t", "i", "c", "l", "e">>,
                  <<"s", "e", "c", "t", "i", "o", "n">>,
                  <<"c", "l", "a", "u", "s", "e">>,
                  <<"w", "h", "e", "r", "e", "a", "s">>}

CodeKeywords == {<<"f", "u", "n", "c", "t", "i", "o", "n">>,
                 <<"c", "l", "a", "s", "s">>,
                 <<"i", "m", "p", "o", "r", "t">>,
                 <<"d", "e", "f">>,
                 <<"v", "a", "r">>}

\* len(re.findall(r'^\s*\d+\.', s, re.MULTILINE)): the digit runs that are
\* followed by a period and reached from a line start through whitespace only
CountNumberedLines(s) ==
    Cardinality({d \in DOMAIN s :
        /\ isdigit(s[d])
        /\ LET e == RunEnd(s, d, Digits)
               w == RunStart(s, d - 1, Whitespace) + 1
           IN  /\ e <= Len(s)
               /\ s[e] = "."
               /\ w = 1 \/ \E k \in w..(d - 1) : s[k] = "\n"})

\* The classifier with the code keywords tried before the legal ones
detect_code_before_legal(t) ==
    LET text_sample == lower(SubSeq(t, 1, IF Len(t) < SampleSize THEN Len(t) ELSE SampleSize))
    IN  IF \E w \in CodeKeywords : contains(text_sample, w) THEN "code"
        ELSE IF \E w \in LegalKeywords : contains(text_sample, w) THEN "legal"
        ELSE IF CountNumberedLines(text_sample) > 3 THEN "technical"
        ELSE "narrative"

_detect_document_type(t) ==
    LET text_sample == lower(SubSeq(t, 1, IF Len(t) < SampleSize THEN Len(t) ELSE SampleSize))
    IN  IF \E w \in LegalKeywords : contains(text_sample, w) THEN "legal"
        ELSE IF \E w \in CodeKeywords : contains(text_sample, w) THEN "code"
        ELSE IF CountNumberedLines(text_sample) > 3 THEN "technical"
        ELSE "narrative"

-----------------------------------------------------------------------------
(* Legal, code and technical segmenters *)

legal_patterns == <<"legal_article", "legal_section", "legal_clause",
                    "legal_letter_item", "legal_number_item">>

code_patterns == <<"code_def", "code_class", "code_function", "code_public_class">>

section_patterns == <<"section_keyword", "section_numbered", "section_lettered",
                      "section_markdown">>

\* What one iteration of the loop of _pattern_based_chunking adds for the
\* stripped region chunk_text
ChunksOfRegion(self, chunk_text) ==
    IF chunk_text = <<>> THEN <<>>
    ELSE IF Len(chunk_text) <= self.max_size THEN <<chunk_text>>
    ELSE _split_by_sentences(self, chunk_text)

RECURSIVE PatternChunkLoop(_, _, _, _, _, _)
\* The loop of _pattern_based_chunking over matches[1:], at matches[k]
\* (start and the matches are 0-based offsets)
PatternChunkLoop(self, t, matches, k, start, cs) ==
    IF k > Len(matches) THEN cs
    ELSE PatternChunkLoop(self, t, matches, k + 1, matches[k],
                          cs \o ChunksOfRegion(self, strip(SubSeq(t, start + 1, matches[k]))))

\* The loop run over the sorted matches alone, the end of the text not appended
ChunksBetweenMatchesOnly(self, t, found) ==
    IF found = <<>> THEN _narrative_chunking(self, t)
    ELSE PatternChunkLoop(self, t, SortedBy(found, found), 2, 0, <<>>)

\* _pattern_based_chunking once the match offsets of every pattern are found
ChunksBetweenMatches(self, t, found) ==
    IF found = <<>> THEN _narrative_chunking(self, t)
    ELSE PatternChunkLoop(self, t, Append(SortedBy(found, found), Len(t)), 2, 0, <<>>)

_pattern_based_chunking(self, t, patterns) ==
    ChunksBetweenMatches(self, t, Flatten([k \in DOMAIN patterns |-> MatchStarts(patterns[k], t)]))

_legal_chunking(self, t) == _pattern_based_chunking(self, t, legal_patterns)

_code_chunking(self, t) == _pattern_based_chunking(self, t, code_patterns)

\* Each match start paired with the start of the next match, the last one with
\* the length of the text
SectionsFrom(starts, length) ==
    [i \in DOMAIN starts |->
        <<starts[i], IF i + 1 <= Len(starts) THEN starts[i + 1] ELSE length>>]

\* The (start, end) pairs one section pattern contributes in _detect_sections
SectionsOfPattern(kind, t) == SectionsFrom(MatchStarts(kind, lower(t)), Len(t))

\* The tuples ps in the order of their item-th component, ties keeping their order
SortByItem(ps, item) == SortedBy(ps, [i \in DOMAIN ps |-> ps[i][item]])

\* sections.sort() on (start, end) tuples: by start, then by end
SortPairs(ps) == SortByItem(SortByItem(ps, 2), 1)

RECURSIVE MergeSections(_, _, _)
MergeSections(sections, k, merged_sections) ==
    IF k > Len(sections) THEN merged_sections
    ELSE LET start == sections[k][1]
             end_ == sections[k][2]
             n == Len(merged_sections)
         IN  IF n > 0 /\ start <= merged_sections[n][2]
             THEN MergeSections(sections, k + 1,
                    [merged_sections EXCEPT ![n] =
                        <<merged_sections[n][1],
                          IF end_ > merged_sections[n][2] THEN end_ ELSE merged_sections[n][2]>>])
             ELSE MergeSections(sections, k + 1, Append(merged_sections, <<start, end_>>))

_detect_sections(t) ==
    LET sections == Flatten([k \in DOMAIN section_patterns |->
                                SectionsOfPattern(section_patterns[k], t)])
    IN  MergeSections(SortPairs(sections), 1, <<>>)

_split_large_section(self, section_text) ==
    IF Len(split_paragraphs(section_text)) > 1
    THEN _narrative_chunking(self, section_text)
    ELSE _split_by_sentences(self, section_text)

\* What one iteration of the loop of _technical_chunking adds for section_text
ChunksOfSection(self, section_text) ==
    IF Len(section_text) <= self.max_size THEN <<section_text>>
    ELSE _split_large_section(self, section_text)

RECURSIVE TechnicalLoop(_, _, _, _, _)
TechnicalLoop(self, t, sections, k, cs) ==
    IF k > Len(sections) THEN cs
    ELSE TechnicalLoop(self, t, sections, k + 1,
                       cs \o ChunksOfSection(self,
                                strip(SubSeq(t, sections[k][1] + 1, sections[k][2]))))

\* _technical_chunking once the sections are detected
ChunksOfSections(self, t, sections) ==
    IF sections = <<>> THEN _narrative_chunking(self, t)
    ELSE TechnicalLoop(self, t, sections, 1, <<>>)

_technical_chunking(self, t) == ChunksOfSections(self, t, _detect_sections(t))

-----------------------------------------------------------------------------
(* TableDetector: self.table_patterns and _detect_table_structures *)

\* The index of the first newline at or after i (Len(s) + 1 if none)
LineEnd(s, i) == RunEnd(s, i, {c \in Range(s) : c # "\n"})

\* \|[^\n]*\|[^\n]*\n at p: a line from a pipe at p, with a second pipe, ended by a newline
TableRow(s, p) ==
    /\ p <= Len(s)
    /\ s[p] = "|"
    /\ LineEnd(s, p) <= Len(s)
    /\ \E k \in (p + 1)..(LineEnd(s, p) - 1) : s[k] = "|"

RECURSIVE TableRowsEnd(_, _)
\* (\|[^\n]*\|[^\n]*\n)+ is greedy: the index after the last consecutive row from p
TableRowsEnd(s, p) == IF TableRow(s, p) THEN TableRowsEnd(s, LineEnd(s, p) + 1) ELSE p

\* 'markdown': r'\|[^\n]*\|[^\n]*\n\|[-\s|:]+\|[^\n]*\n(\|[^\n]*\|[^\n]*\n)+'
\* The separator's character class holds the newline: its closing pipe is the
\* last one of the class run that is followed, on the next line, by a row.
markdown_pattern(s, i) ==
    IF TableRow(s, i) /\ LineEnd(s, i) + 1 <= Len(s) /\ s[LineEnd(s, i) + 1] = "|"
    THEN LET a == LineEnd(s, i) + 1
             r == RunEnd(s, a + 1, MarkdownSeparatorChars)
             closing == {q \in (a + 2)..(r - 1) :
                            /\ s[q] = "|"
                            /\ LineEnd(s, q) <= Len(s)
                            /\ TableRow(s, LineEnd(s, q) + 1)}
         IN  IF closing = {} THEN 0 ELSE TableRowsEnd(s, LineEnd(s, Max(closing)) + 1)
    ELSE 0

\* 'ascii_table': r'^[\+\-\|][\-\+\|]*[\+\-\|]$'
ascii_table_pattern(s, i) ==
    LET e == LineEnd(s, i)
    IN  IF /\ at_line_start(s, i)
           /\ e - i >= 2
           /\ \A k \in i..(e - 1) : s[k] \in {"+", "-", "|"}
        THEN e ELSE 0

\* [^,\n]+,[^,\n]+.*\n at p: the line's first comma is not its first character,
\* is followed on the line by a character that is no comma, and the line ends
\* with a newline
CsvLine(s, p) ==
    /\ p <= Len(s)
    /\ LineEnd(s, p) <= Len(s)
    /\ LET commas == {k \in p..(LineEnd(s, p) - 1) : s[k] = ","}
       IN  /\ commas # {}
           /\ Min(commas) > p
           /\ Min(commas) + 1 < LineEnd(s, p)
           /\ s[Min(commas) + 1] # ","

RECURSIVE CsvLinesEnd(_, _)
CsvLinesEnd(s, p) == IF CsvLine(s, p) THEN CsvLinesEnd(s, LineEnd(s, p) + 1) ELSE p

\* 'csv_like': r'^[^,\n]+,[^,\n]+.*\n([^,\n]+,[^,\n]+.*\n){2,}'
csv_like_pattern(s, i) ==
    IF /\ at_line_start(s, i)
       /\ CsvLine(s, i)
       /\ CsvLine(s, LineEnd(s, i) + 1)
       /\ CsvLine(s, LineEnd(s, LineEnd(s, i) + 1) + 1)
    THEN CsvLinesEnd(s, i) ELSE 0

\* 'formatted_rows': r'^[^\n]*\|[^\n]*$'
formatted_rows_pattern(s, i) ==
    LET e == LineEnd(s, i)
    IN  IF at_line_start(s, i) /\ i <= Len(s) /\ \E k \in i..(e - 1) : s[k] = "|"
        THEN e ELSE 0

\* 'azure_table': r'--- TABLEAU \d+ ---[^-]*?(?=--- |$)' (MULTILINE | DOTALL): the
\* lazy [^-]*? stops at the first index that "--- " or a line end follows
azure_table_pattern(s, i) ==
    IF OccursAt(<<"-", "-", "-", " ", "T", "A", "B", "L", "E", "A", "U", " ">>, s, i)
    THEN LET c == RunEnd(s, i + 12, Digits)
             d == c + 4
             dash == RunEnd(s, d, {x \in Range(s) : x # "-"})
             stops == {e \in d..dash :
                         \/ e = Len(s) + 1
                         \/ s[e] = "\n"
                         \/ OccursAt(<<"-", "-", "-", " ">>, s, e)}
         IN  IF c > i + 12 /\ OccursAt(<<" ", "-", "-", "-">>, s, c) /\ stops # {}
             THEN Min(stops) ELSE 0
    ELSE 0

\* self.table_patterns, in the dict's order
table_patterns == <<"markdown", "ascii_table", "csv_like", "formatted_rows", "azure_table">>

TablePatternAt(table_type, s, i) ==
    CASE table_type = "markdown" -> markdown_pattern(s, i)
      [] table_type = "ascii_table" -> ascii_table_pattern(s, i)
      [] table_type = "csv_like" -> csv_like_pattern(s, i)
      [] table_type = "formatted_rows" -> formatted_rows_pattern(s, i)
      [] table_type = "azure_table" -> azure_table_pattern(s, i)

\* re.finditer(pattern, s, ...): the matches as <<start, end>>, 1-based start
\* and the index after the match
FindTables(table_type, s) ==
    SelectMatches([j \in DOMAIN s |-> TablePatternAt(table_type, s, j)], 1)

\* [line.strip() for line in content.split('\n') if line.strip()]
StrippedLines(content) == StripAll(split(content, "\n"))

\* [line for line in content.split('\n') if line.strip()]
NonBlankLines(content) == SelectNonBlank(split(content, "\n"))

\* The average (rounded down) of count + 1 over the lines holding the separator
AverageColumns(lines, separator) ==
    LET with == {k \in DOMAIN lines : count(lines[k], separator) > 0}
        total == Sum([k \in DOMAIN lines |->
                        IF k \in with THEN count(lines[k], separator) + 1 ELSE 0])
    IN  IF with = {} THEN 0 ELSE total \div Cardinality(with)

_estimate_columns(table_content) ==
    LET lines == StrippedLines(table_content)
    IN  IF lines = <<>> THEN 0
        ELSE Max({AverageColumns(lines, sep) : sep \in {"|", ",", "\t", ";"}})

\* re.match(r'^\|[-\s|:]+\|', line)
StartsWithSeparatorRow(line) ==
    /\ Len(line) >= 1
    /\ line[1] = "|"
    /\ \E q \in 3..(RunEnd(line, 2, MarkdownSeparatorChars) - 1) : line[q] = "|"

_has_header_row(table_content, table_type) ==
    LET lines == StrippedLines(table_content)
    IN  IF Len(lines) < 2 THEN FALSE
        ELSE IF table_type = "markdown" THEN StartsWithSeparatorRow(lines[2])
        ELSE IF table_type = "azure_table"
             THEN contains(lines[1], <<"T", "A", "B", "L", "E", "A", "U">>)
        ELSE Cardinality({k \in DOMAIN lines[1] : isalpha(lines[1][k])})
                > Cardinality({k \in DOMAIN lines[1] : isdigit(lines[1][k])})

financial_keywords == {<<"p", "r", "i", "x">>, <<"c", "o", "û", "t">>,
                       <<"m", "o", "n", "t", "a", "n", "t">>, <<"€">>, <<"$">>,
                       <<"b", "u", "d", "g", "e", "t">>, <<"f", "a", "c", "t", "u", "r", "e">>}

temporal_keywords == {<<"d", "a", "t", "e">>, <<"h", "e", "u", "r", "e">>,
                      <<"p", "l", "a", "n", "n", "i", "n", "g">>, <<"d", "é", "l", "a", "i">>,
                      <<"é", "c", "h", "é", "a", "n", "c", "e">>}

contact_keywords == {<<"n", "o", "m">>, <<"p", "r", "é", "n", "o", "m">>,
                     <<"c", "o", "n", "t", "a", "c", "t">>, <<"e", "m", "a", "i", "l">>,
                     <<"t", "é", "l", "é", "p", "h", "o", "n", "e">>}

spec_keywords == {<<"s", "p", "é", "c", "i", "f", "i", "c", "a", "t", "i", "o", "n">>,
                  <<"p", "a", "r", "a", "m", "è", "t", "r", "e">>,
                  <<"c", "o", "n", "f", "i", "g">>,
                  <<"p", "r", "o", "p", "r", "i", "é", "t", "é">>,
                  <<"v", "a", "l", "e", "u", "r">>}

legal_keywords == {<<"a", "r", "t", "i", "c", "l", "e">>, <<"c", "l", "a", "u", "s", "e">>,
                   <<"a", "l", "i", "n", "é", "a">>,
                   <<"p", "a", "r", "a", "g", "r", "a", "p", "h", "e">>,
                   <<"s", "e", "c", "t", "i", "o", "n">>}

_classify_table_type(table_content) ==
    LET content_lower == lower(table_content)
        any(keywords) == \E w \in keywords : contains(content_lower, w)
    IN  IF any(financial_keywords) THEN "financial"
        ELSE IF any(temporal_keywords) THEN "temporal"
        ELSE IF any(contact_keywords) THEN "contact_list"
        ELSE IF any(spec_keywords) THEN "specification"
        ELSE IF any(legal_keywords) THEN "legal"
        ELSE "general"

\* The table_info dict built for one match m = <<start, end>>
TableInfo(table_type, s, m) ==
    LET table_content == SubSeq(s, m[1], m[2] - 1)
    IN  [type |-> table_type,
         start |-> m[1] - 1,
         end |-> m[2] - 1,
         content |-> table_content,
         row_count |-> Len(split(table_content, "\n")),
         estimated_columns |-> _estimate_columns(table_content),
         has_headers |-> _has_header_row(table_content, table_type),
         table_classification |-> _classify_table_type(table_content)]

\* The table_info of the matches ms of a family, up to the fault if there is one
SpansBeforeFault(table_type, s, ms, fault) ==
    [k \in 1..(IF fault = 0 \/ fault > Len(ms) THEN Len(ms) ELSE fault - 1) |->
        TableInfo(table_type, s, ms[k])]

\* The spans one pattern family appends before its try block ends.  fault = 0:
\* nothing raises, every match is appended.  fault = k > 0: an exception is
\* raised in the try block while the k-th match of the family is processed,
\* when k - 1 spans of the family are appended already; the except clause logs
\* it and goes on with the next family.  A family with fewer than k matches
\* raises nothing.
FamilySpans(table_type, s, fault) == SpansBeforeFault(table_type, s, FindTables(table_type, s), fault)

RECURSIVE MergeTablesKeepFirstType(_, _, _, _)
\* The loop with the merged span keeping the type of its first span
MergeTablesKeepFirstType(tables, k, merged, current_table) ==
    IF k > Len(tables) THEN Append(merged, current_table)
    ELSE LET next_table == tables[k]
         IN  IF next_table.start <= current_table.end
             THEN MergeTablesKeepFirstType(tables, k + 1, merged,
                    [current_table EXCEPT
                        !.end = IF next_table.end > @ THEN next_table.end ELSE @,
                        !.content = @ \o <<"\n">> \o next_table.content,
                        !.row_count = @ + next_table.row_count])
             ELSE MergeTablesKeepFirstType(tables, k + 1, Append(merged, current_table),
                                           next_table)

RECURSIVE MergeTablesLoop(_, _, _, _)
\* The loop of _merge_overlapping_tables at tables[k]
MergeTablesLoop(tables, k, merged, current_table) ==
    IF k > Len(tables) THEN Append(merged, current_table)
    ELSE LET next_table == tables[k]
         IN  IF next_table.start <= current_table.end
             THEN MergeTablesLoop(tables, k + 1, merged,
                    [current_table EXCEPT
                        !.end = IF next_table.end > @ THEN next_table.end ELSE @,
                        !.content = @ \o <<"\n">> \o next_table.content,
                        !.row_count = @ + next_table.row_count,
                        !.type = IF next_table.type # "formatted_rows"
                                 THEN next_table.type ELSE @])
             ELSE MergeTablesLoop(tables, k + 1, Append(merged, current_table), next_table)

\* The sorted spans returned as they are, none merged
merge_no_tables(tables) == tables

_merge_overlapping_tables(tables) ==
    IF tables = <<>> THEN <<>> ELSE MergeTablesLoop(tables, 2, <<>>, tables[1])

\* detected_tables.sort(key=lambda x: x['start'])
SortByStart(tables) == SortedBy(tables, [k \in DOMAIN tables |-> tables[k].start])

\* _detect_table_structures, with the exceptions `fault` injects per family
DetectTables(s, fault) ==
    _merge_overlapping_tables(SortByStart(
        Flatten([k \in DOMAIN table_patterns |->
                    FamilySpans(table_patterns[k], s, fault[table_patterns[k]])])))

NoFault == [f \in Range(table_patterns) |-> 0]

_detect_table_structures(s) == DetectTables(s, NoFault)

-----------------------------------------------------------------------------
(* Table-aware segmenter: _table_aware_chunking and the table chunkers *)

RECURSIVE MarkdownRowsLoopOneMore(_, _, _, _, _, _, _)
\* The loop with a chunk closed only once it holds more rows than the limit
MarkdownRowsLoopOneMore(self, data_lines, k, base_content, cs, current_chunk, rows_in_chunk) ==
    IF k > Len(data_lines)
    THEN IF current_chunk # base_content THEN Append(cs, strip(current_chunk)) ELSE cs
    ELSE LET proposed_chunk == current_chunk \o data_lines[k] \o <<"\n">>
         IN  IF \/ Len(proposed_chunk) > self.target_size
                \/ rows_in_chunk > self.table_max_rows_per_chunk
             THEN MarkdownRowsLoopOneMore(self, data_lines, k + 1, base_content,
                                          IF current_chunk # base_content
                                          THEN Append(cs, strip(current_chunk))
                                          ELSE cs,
                                          base_content \o data_lines[k] \o <<"\n">>, 1)
             ELSE MarkdownRowsLoopOneMore(self, data_lines, k + 1, base_content, cs,
                                          proposed_chunk, rows_in_chunk + 1)

RECURSIVE MarkdownRowsLoop(_, _, _, _, _, _, _)
\* The loop of _chunk_markdown_table at data_lines[k]
MarkdownRowsLoop(self, data_lines, k, base_content, cs, current_chunk, rows_in_chunk) ==
    IF k > Len(data_lines)
    THEN IF current_chunk # base_content THEN Append(cs, strip(current_chunk)) ELSE cs
    ELSE LET proposed_chunk == current_chunk \o data_lines[k] \o <<"\n">>
         IN  IF \/ Len(proposed_chunk) > self.target_size
                \/ rows_in_chunk >= self.table_max_rows_per_chunk
             THEN MarkdownRowsLoop(self, data_lines, k + 1, base_content,
                                   IF current_chunk # base_content
                                   THEN Append(cs, strip(current_chunk))
                                   ELSE cs,
                                   base_content \o data_lines[k] \o <<"\n">>, 1)
             ELSE MarkdownRowsLoop(self, data_lines, k + 1, base_content, cs,
                                   proposed_chunk, rows_in_chunk + 1)

_chunk_markdown_table(self, table) ==
    LET lines == NonBlankLines(table.content)
        header_line == lines[1]
        separator_line == IF count(lines[2], "|") > 0 THEN lines[2] ELSE <<>>
        data_lines == IF Len(lines) > 2 THEN SubSeq(lines, 3, Len(lines))
                      ELSE IF separator_line = <<>> THEN SubSeq(lines, 2, Len(lines))
                      ELSE <<>>
        base_content == header_line
                        \o (IF separator_line # <<>> THEN <<"\n">> \o separator_line ELSE <<>>)
                        \o <<"\n">>
        cs == MarkdownRowsLoop(self, data_lines, 1, base_content, <<>>, base_content, 0)
    IN  IF Len(lines) < 2 THEN <<table.content>>
        ELSE IF cs # <<>> THEN cs ELSE <<table.content>>

currencies == <<<<"€">>, <<"$">>, <<"£">>, <<"U", "S", "D">>, <<"E", "U", "R">>>>

\* next((c for c in currencies if c in line), None); None is <<>>
FirstCurrency(line) ==
    LET found == {k \in DOMAIN currencies : contains(line, currencies[k])}
    IN  IF found = {} THEN <<>> ELSE currencies[Min(found)]

\* \b at index i: exactly one of s[i - 1], s[i] is a word character
WordBoundary(s, i) ==
    (i >= 2 /\ i - 1 <= Len(s) /\ s[i - 1] \in WordChars)
        # (i >= 1 /\ i <= Len(s) /\ s[i] \in WordChars)

AllDigits(s, a, b) == a <= b /\ b <= Len(s) /\ \A k \in a..b : isdigit(s[k])

DateSeparators == {"/", "-", "."}

\* The digit counts \d{1,2}, \d{1,2}, \d{2,4} of a date, in the order the greedy
\* quantifiers try them
DateShapes == <<<<2, 2, 4>>, <<2, 2, 3>>, <<2, 2, 2>>, <<2, 1, 4>>, <<2, 1, 3>>, <<2, 1, 2>>,
                <<1, 2, 4>>, <<1, 2, 3>>, <<1, 2, 2>>, <<1, 1, 4>>, <<1, 1, 3>>, <<1, 1, 2>>>>

\* A date of the shape sh = <<a, b, c>> at i: the index after it, 0 if none
DateOfShape(s, i, sh) ==
    LET p1 == i + sh[1]
        p2 == p1 + 1 + sh[2]
        p3 == p2 + 1 + sh[3]
    IN  IF /\ AllDigits(s, i, p1 - 1)
           /\ p1 <= Len(s) /\ s[p1] \in DateSeparators
           /\ AllDigits(s, p1 + 1, p2 - 1)
           /\ p2 <= Len(s) /\ s[p2] \in DateSeparators
           /\ AllDigits(s, p2 + 1, p3 - 1)
           /\ WordBoundary(s, p3)
        THEN p3 ELSE 0

\* date_pattern = r'\b\d{1,2}[/\-\.]\d{1,2}[/\-\.]\d{2,4}\b|\b\d{4}\b' at i
date_pattern(s, i) ==
    IF ~WordBoundary(s, i) THEN 0
    ELSE LET shapes == {k \in DOMAIN DateShapes : DateOfShape(s, i, DateShapes[k]) > 0}
         IN  IF shapes # {} THEN DateOfShape(s, i, DateShapes[Min(shapes)])
             ELSE IF AllDigits(s, i, i + 3) /\ WordBoundary(s, i + 4) THEN i + 4
             ELSE 0

\* re.findall(date_pattern, line), as <<start, end>> pairs
FindDates(line) == SelectMatches([j \in DOMAIN line |-> date_pattern(line, j)], 1)

\* The first of the dates that has four characters, None (<<>>) if there is none
FirstOfLength4(line, dates, years) ==
    IF years = {} THEN <<>>
    ELSE SubSeq(line, dates[Min(years)][1], dates[Min(years)][2] - 1)

\* next((d for d in line_dates if len(d) == 4), None)
YearAmong(line, dates) ==
    FirstOfLength4(line, dates, {k \in DOMAIN dates : dates[k][2] - dates[k][1] = 4})

\* The temporal branch of _lines_semantically_related and the default it
\* falls back to
RelatedByYear(line1, line2, line1_dates, line2_dates) ==
    IF line1_dates # <<>> /\ line2_dates # <<>>
    THEN YearAmong(line1, line1_dates) = YearAmong(line2, line2_dates)
    ELSE (IF Len(line1) >= Len(line2) THEN Len(line1) - Len(line2)
          ELSE Len(line2) - Len(line1)) < 50

_lines_semantically_related(line1, line2, table_type) ==
    IF table_type = "financial" THEN FirstCurrency(line1) = FirstCurrency(line2)
    ELSE IF table_type = "temporal"
         THEN RelatedByYear(line1, line2, FindDates(line1), FindDates(line2))
    ELSE (IF Len(line1) >= Len(line2) THEN Len(line1) - Len(line2)
          ELSE Len(line2) - Len(line1)) < 50

\* The end of _identify_semantic_groups: the last group is added unless it is
\* empty or equal to the group before it; no group at all gives [data_lines]
CloseGroups(data_lines, groups, current_group) ==
    IF current_group # <<>> /\ (groups = <<>> \/ current_group # groups[Len(groups)])
    THEN Append(groups, current_group)
    ELSE IF groups # <<>> THEN groups
    ELSE <<data_lines>>

RECURSIVE RelatedGroupsLoop(_, _, _, _, _)
\* The grouping loop of _identify_semantic_groups (financial, temporal) at
\* data_lines[k], and what the method returns after it
RelatedGroupsLoop(data_lines, k, table_type, groups, current_group) ==
    IF k > Len(data_lines) THEN CloseGroups(data_lines, groups, current_group)
    ELSE IF _lines_semantically_related(current_group[Len(current_group)], data_lines[k],
                                        table_type)
         THEN RelatedGroupsLoop(data_lines, k + 1, table_type, groups,
                                Append(current_group, data_lines[k]))
         ELSE RelatedGroupsLoop(data_lines, k + 1, table_type,
                                Append(groups, current_group), <<data_lines[k]>>)

\* [data_lines[i:i + n] for i in range(0, len(data_lines), n)], n >= 1
RowBatches(data_lines, n) ==
    [g \in 1..((Len(data_lines) + n - 1) \div n) |->
        SubSeq(data_lines, (g - 1) * n + 1,
               IF g * n < Len(data_lines) THEN g * n ELSE Len(data_lines))]

_identify_semantic_groups(self, data_lines, table) ==
    IF data_lines = <<>> THEN <<>>
    ELSE IF table.table_classification \in {"financial", "temporal"}
         THEN RelatedGroupsLoop(data_lines, 2, table.table_classification,
                                <<>>, <<data_lines[1]>>)
    ELSE CloseGroups(data_lines, RowBatches(data_lines, self.table_max_rows_per_chunk), <<>>)

RECURSIVE SubdivideLoop(_, _, _, _, _, _)
\* The loop of _subdivide_table_group at data_lines[k]
SubdivideLoop(self, data_lines, k, header_lines, sub_chunks, current_lines) ==
    IF k > Len(data_lines)
    THEN IF current_lines # <<>> /\ Len(current_lines) > Len(header_lines)
         THEN Append(sub_chunks, join(current_lines, <<"\n">>))
         ELSE sub_chunks
    ELSE IF /\ Len(join(Append(current_lines, data_lines[k]), <<"\n">>)) > self.target_size
            /\ Len(current_lines) > Len(header_lines)
         THEN SubdivideLoop(self, data_lines, k + 1, header_lines,
                            Append(sub_chunks, join(current_lines, <<"\n">>)),
                            Append(header_lines, data_lines[k]))
         ELSE SubdivideLoop(self, data_lines, k + 1, header_lines, sub_chunks,
                            Append(current_lines, data_lines[k]))

\* sub_chunks if sub_chunks else [chunk_content]
SubChunksOr(sub_chunks, chunk_content) ==
    IF sub_chunks # <<>> THEN sub_chunks ELSE <<chunk_content>>

\* _subdivide_table_group once chunk_content is split into lines
SubdivideLines(self, chunk_content, header_lines, lines) ==
    SubChunksOr(SubdivideLoop(self, SubSeq(lines, Len(header_lines) + 1, Len(lines)), 1,
                              header_lines, <<>>, header_lines),
                chunk_content)

_subdivide_table_group(self, chunk_content, header_lines) ==
    SubdivideLines(self, chunk_content, header_lines, split(chunk_content, "\n"))

\* The rows that do not start with --- and hold a pipe
AzureRows(lines) ==
    {i \in DOMAIN lines : ~startswith(lines[i], <<"-", "-", "-">>) /\ count(lines[i], "|") > 0}

\* data_start_index of an azure_table: the index (0-based) of the first such
\* row, 0 if there is none
AzureDataStart(lines) == IF AzureRows(lines) = {} THEN 0 ELSE Min(AzureRows(lines)) - 1

\* data_start_index in _chunk_large_table
DataStartIndex(table, lines) ==
    IF ~table.has_headers THEN 0
    ELSE IF table.type = "markdown" /\ Len(lines) >= 2 THEN 2
    ELSE IF table.type = "azure_table" THEN AzureDataStart(lines)
    ELSE 1

\* header_lines in _chunk_large_table
HeaderLines(table, lines) ==
    IF ~table.has_headers THEN <<>>
    ELSE IF table.type = "markdown" /\ Len(lines) >= 2 THEN SubSeq(lines, 1, 2)
    ELSE IF table.type = "azure_table" THEN SubSeq(lines, 1, AzureDataStart(lines))
    ELSE IF lines # <<>> THEN <<lines[1]>>
    ELSE <<>>

\* semantic_groups in _chunk_large_table
GroupsOfRows(self, table, data_lines) ==
    IF self.table_semantic_grouping
    THEN _identify_semantic_groups(self, data_lines, table)
    ELSE RowBatches(data_lines, self.table_max_rows_per_chunk)

\* The chunks one group gives, chunk_content being its lines joined
ChunksOfContent(self, header_lines, chunk_content) ==
    IF Len(chunk_content) > self.max_size
    THEN _subdivide_table_group(self, chunk_content, header_lines)
    ELSE <<chunk_content>>

\* One iteration of the loop of _chunk_large_table over the groups
ChunksOfGroup(self, header_lines, group) ==
    ChunksOfContent(self, header_lines,
                    join((IF self.table_always_include_headers THEN header_lines ELSE <<>>)
                         \o group, <<"\n">>))

\* The loop of _chunk_large_table over semantic_groups
ChunksOfGroups(self, header_lines, semantic_groups) ==
    Flatten([g \in DOMAIN semantic_groups |->
                ChunksOfGroup(self, header_lines, semantic_groups[g])])

\* _chunk_large_table once the non-blank lines of the table are taken
ChunkLargeTableLines(self, table, lines) ==
    ChunksOfGroups(self, HeaderLines(table, lines),
                   GroupsOfRows(self, table,
                                SubSeq(lines, DataStartIndex(table, lines) + 1, Len(lines))))

_chunk_large_table(self, table) ==
    ChunkLargeTableLines(self, table, NonBlankLines(table.content))

_chunk_small_table(self, table) ==
    IF Len(table.content) <= self.max_size THEN <<table.content>>
    ELSE _chunk_large_table(self, table)

reference_indicators ==
    {<<"d", "é", "f", "i", "n", "i", "t", "i", "o", "n">>,
     <<"d", "e", "s", "c", "r", "i", "p", "t", "i", "o", "n">>,
     <<"r", "é", "f", "é", "r", "e", "n", "c", "e">>,
     <<"g", "l", "o", "s", "s", "a", "i", "r", "e">>,
     <<"i", "n", "d", "e", "x">>, <<"c", "o", "d", "e">>, <<"n", "o", "m">>,
     <<"v", "a", "l", "e", "u", "r">>, <<"t", "y", "p", "e">>,
     <<"p", "a", "r", "a", "m", "è", "t", "r", "e">>}

_is_reference_table(table) ==
    \E w \in reference_indicators : contains(lower(table.content), w)

_group_reference_entries(lines, table) == lines

\* The header lines _chunk_reference_table puts at the head of a chunk
ReferenceHeader(table, lines) ==
    IF table.type = "markdown" /\ Len(lines) >= 2 THEN SubSeq(lines, 1, 2) ELSE <<lines[1]>>

RECURSIVE ReferenceLoop(_, _, _, _, _, _, _)
\* The loop of _chunk_reference_table at logical_groups[k]
ReferenceLoop(self, table, lines, logical_groups, k, cs, current_chunk_lines) ==
    IF k > Len(logical_groups)
    THEN IF current_chunk_lines # <<>>
         THEN Append(cs, join(current_chunk_lines, <<"\n">>))
         ELSE cs
    ELSE LET group == logical_groups[k]
             proposed_content == join(Append(current_chunk_lines, group), <<"\n">>)
         IN  IF Len(proposed_content) > self.target_size /\ current_chunk_lines # <<>>
             THEN ReferenceLoop(self, table, lines, logical_groups, k + 1,
                                Append(cs, join(current_chunk_lines, <<"\n">>)),
                                Append(IF self.table_always_include_headers /\ table.has_headers
                                       THEN ReferenceHeader(table, lines)
                                       ELSE <<>>,
                                       group))
             ELSE ReferenceLoop(self, table, lines, logical_groups, k + 1, cs,
                                Append(current_chunk_lines, group))

_chunk_reference_table(self, table) ==
    LET lines == NonBlankLines(table.content)
        all_groups == _group_reference_entries(lines, table)
        with_header == table.has_headers /\ lines # <<>>
        markdown == table.type = "markdown" /\ Len(lines) >= 2
        first_lines == IF with_header THEN ReferenceHeader(table, lines) ELSE <<>>
        logical_groups ==
            IF ~with_header THEN all_groups
            ELSE IF markdown
                 THEN (IF Len(all_groups) > 2 THEN SubSeq(all_groups, 3, Len(all_groups))
                       ELSE <<>>)
                 ELSE SubSeq(all_groups, 2, Len(all_groups))
        cs == ReferenceLoop(self, table, lines, logical_groups, 1, <<>>, first_lines)
    IN  IF cs # <<>> THEN cs ELSE <<table.content>>

_chunk_table_intelligently(self, table) ==
    IF table.type = "markdown" THEN _chunk_markdown_table(self, table)
    ELSE IF table.row_count > self.table_max_rows_per_chunk * 2
         THEN _chunk_large_table(self, table)
    ELSE IF _is_reference_table(table) THEN _chunk_reference_table(self, table)
    ELSE _chunk_small_table(self, table)

_chunk_regular_text(self, t) == _narrative_chunking(self, t)

\* _chunk_regular_text on a stripped part of the text, if it is not empty
ChunksOfPart(self, part) == IF part # <<>> THEN _chunk_regular_text(self, part) ELSE <<>>

\* The chunks of the text t[from:to] (0-based offsets) outside the tables
RegularChunks(self, t, from, to) ==
    IF from < to THEN ChunksOfPart(self, strip(SubSeq(t, from + 1, to))) ELSE <<>>

\* last_pos when the loop of _table_aware_chunking reaches tables[k]
LastPos(tables, k) == IF k = 1 THEN 0 ELSE tables[k - 1].end

\* One iteration of the loop of _table_aware_chunking
ChunksAtTable(self, t, tables, k) ==
    RegularChunks(self, t, LastPos(tables, k), tables[k].start)
        \o _chunk_table_intelligently(self, tables[k])

_table_aware_chunking(self, t, tables) ==
    Flatten([k \in DOMAIN tables |-> ChunksAtTable(self, t, tables, k)])
        \o RegularChunks(self, t, LastPos(tables, Len(tables) + 1), Len(t))

-----------------------------------------------------------------------------
(* SmartChunker.create_chunks and DocumentProcessor._create_smart_chunks *)

\* The dispatch of _smart_chunking once the tables are detected
SmartDispatch(self, t, dtype, tables) ==
    IF tables # <<>> /\ self.table_strategy = "preserve_structure"
    THEN _table_aware_chunking(self, t, tables)
    ELSE IF dtype = "legal" THEN _legal_chunking(self, t)
    ELSE IF dtype = "technical" THEN _technical_chunking(self, t)
    ELSE IF dtype = "code" THEN _code_chunking(self, t)
    ELSE _narrative_chunking(self, t)

_smart_chunking(self, t, dtype) == SmartDispatch(self, t, dtype, _detect_table_structures(t))

\* create_chunks, for a text with a non-blank character, stage by stage: each
\* operator takes the local variables assigned so far.  The result is a record
\* of them all; final_chunks is what create_chunks returns.
Finalized(self, dtype, tables, cs, overlapped) ==
    [document_type |-> dtype,
     detected_tables |-> tables,
     chunks |-> cs,
     overlapped_chunks |-> overlapped,
     final_chunks |-> _finalize_chunks(self, overlapped)]

Overlapped(self, dtype, tables, cs) ==
    Finalized(self, dtype, tables, cs, _add_intelligent_overlap(self, cs))

\* The strategy dispatch of create_chunks; under "smart" the tables detected
\* here decide alone, since _smart_chunking detects the same tables again
Segmented(self, t, dtype, tables) ==
    Overlapped(self, dtype, tables,
               IF self.strategy = "smart" THEN SmartDispatch(self, t, dtype, tables)
               ELSE IF self.strategy = "semantic" THEN _semantic_chunking(self, t)
               ELSE _simple_chunking(self, t))

Pipeline(self, t, hint) ==
    Segmented(self, t,
              IF hint = "auto" THEN _detect_document_type(t) ELSE hint,
              IF self.strategy = "smart" THEN _detect_table_structures(t) ELSE <<>>)

\* The guard of create_chunks: not text or not text.strip()
IsBlank(t) == t = <<>> \/ strip(t) = <<>>

create_chunks(self, t, hint) ==
    IF IsBlank(t) THEN <<>> ELSE Pipeline(self, t, hint).final_chunks

\* t.find(sub, start) with 0-based offsets: -1 if there is none
find(t, sub, start) ==
    LET at == {k \in start..(Len(t) - Len(sub)) : OccursAt(sub, t, k + 1)}
    IN  IF at = {} THEN -1 ELSE Min(at)

RECURSIVE PositionsLoop(_, _, _, _, _)
\* The loop of _create_smart_chunks at smart_chunks[k] (enumerate's i is k - 1)
PositionsLoop(t, smart_chunks, k, search_start, processed) ==
    IF k > Len(smart_chunks) THEN processed
    ELSE LET chunk_text == smart_chunks[k].text
             position == find(t, chunk_text, search_start)
             start_pos == IF position # -1 THEN position ELSE search_start
             processed_chunk == [index |-> k - 1,
                                 text |-> chunk_text,
                                 start_pos |-> start_pos,
                                 end_pos |-> start_pos + Len(chunk_text),
                                 length |-> Len(chunk_text),
                                 chunk_type |-> smart_chunks[k].chunk_type,
                                 quality_score |-> smart_chunks[k].quality_score]
         IN  PositionsLoop(t, smart_chunks, k + 1, start_pos + Len(chunk_text),
                           Append(processed, processed_chunk))

\* The position loop of _create_smart_chunks over smart_chunks
PositionsOf(t, smart_chunks) == PositionsLoop(t, smart_chunks, 1, 0, <<>>)

\* document_type is what _detect_document_type_from_filename gave, or "auto"
_create_smart_chunks(self, t, filename_type) ==
    PositionsOf(t, create_chunks(self, t, filename_type))

-----------------------------------------------------------------------------
(* The chunking pipeline as a state machine: a SmartChunker is constructed,  *)
(* then create_chunks or the document processor's wrapper is called on it.   *)

\* The pieces the input texts are put together from
Fragments ==
    <<<<" ">>,
      <<"\n">>,
      <<"A", "b", " ", "c", ".", " ">>,
      <<"d", "e", "!", " ">>,
      <<"A", "r", "t", "i", "c", "l", "e", " ", "1", " ", "x">>,
      <<"|", "a", "|", "\n", "|", "-", "|", "\n", "|", "1", "|", "\n">>>>

MaxFragments == 2

RECURSIVE TextsOf(_, _)
\* The texts made of at most n of the pieces
TextsOf(pieces, n) ==
    IF n = 0 THEN {<<>>}
    ELSE LET shorter == TextsOf(pieces, n - 1)
         IN  shorter \cup {t \o pieces[k] : t \in shorter, k \in DOMAIN pieces}

Texts == TextsOf(Fragments, MaxFragments)

TargetSizes == {3, 8}

MaxSizes == {6}

OverlapSizes == {0, 4}

Strategies == {"smart", "semantic", "simple"}

TableStrategies == {"preserve_structure", "split"}

DocumentTypes == {"auto", "narrative", "technical", "legal", "code"}

NoChunker == [constructed |-> FALSE]

\* No DocumentProcessor is constructed
NoProcessor == [constructed |-> FALSE]

\* SmartChunker.__init__: the arguments are stored as given, none is checked
SmartChunker(target_chunk_size, max_chunk_size, overlap_size, strategy, table_options) ==
    [target_size |-> target_chunk_size,
     max_size |-> max_chunk_size,
     overlap_size |-> overlap_size,
     strategy |-> strategy,
     table_strategy |-> table_options.table_strategy,
     table_max_rows_per_chunk |-> table_options.table_max_rows_per_chunk,
     table_always_include_headers |-> table_options.table_always_include_headers,
     table_semantic_grouping |-> table_options.table_semantic_grouping,
     table_column_chunking |-> table_options.table_column_chunking]

\* The table arguments of __init__ left at their defaults, but for the strategy
DefaultTableOptions(table_strategy) ==
    [table_strategy |-> table_strategy,
     table_max_rows_per_chunk |-> 10,
     table_always_include_headers |-> TRUE,
     table_semantic_grouping |-> TRUE,
     table_column_chunking |-> FALSE]

Init ==
    /\ pc = "start"
    /\ chunker = NoChunker
    /\ text = <<>>
    /\ document_type = "auto"
    /\ faults = NoFault
    /\ detected_tables = <<>>
    /\ chunks = <<>>
    /\ overlapped_chunks = <<>>
    /\ final_chunks = <<>>
    /\ processed_chunks = <<>>
    /\ instances = <<>>
    /\ calls = <<>>
    /\ processor = NoProcessor
    /\ simple_start = 0

Construct ==
    /\ pc = "start"
    /\ \E target \in TargetSizes, max \in MaxSizes, overlap \in OverlapSizes,
          strategy \in Strategies, table_strategy \in TableStrategies :
            chunker' = SmartChunker(target, max, overlap, strategy,
                                    DefaultTableOptions(table_strategy))
    /\ pc' = "constructed"
    /\ UNCHANGED <<processor, simple_start, instances, calls, text, document_type, faults, detected_tables, chunks,
                   overlapped_chunks, final_chunks, processed_chunks>>

\* create_chunks(t, hint) on the constructed chunker
CreateChunksOf(t, hint) ==
    /\ pc = "constructed"
    /\ text' = t
    /\ IF IsBlank(t)
       THEN /\ document_type' = hint
            /\ UNCHANGED <<detected_tables, chunks, overlapped_chunks>>
            /\ final_chunks' = <<>>
       ELSE \E r \in {Pipeline(chunker, t, hint)} :
                /\ document_type' = r.document_type
                /\ detected_tables' = r.detected_tables
                /\ chunks' = r.chunks
                /\ overlapped_chunks' = r.overlapped_chunks
                /\ final_chunks' = r.final_chunks
    /\ pc' = "create_chunks"
    /\ UNCHANGED <<processor, simple_start, instances, calls, chunker, faults, processed_chunks>>

CreateChunks == \E t \in Texts, hint \in DocumentTypes : CreateChunksOf(t, hint)

\* DocumentProcessor._create_smart_chunks(text, filename): its chunker is built
\* with strategy "smart"; the hint is what the file name gave
CreateSmartChunks ==
    /\ pc = "constructed"
    /\ chunker.strategy = "smart"
    /\ \E t \in Texts, hint \in DocumentTypes :
        /\ text' = t
        /\ document_type' = hint
        /\ \E smart_chunks \in {create_chunks(chunker, t, hint)} :
            /\ final_chunks' = smart_chunks
            /\ processed_chunks' = PositionsOf(t, smart_chunks)
    /\ pc' = "_create_smart_chunks"
    /\ UNCHANGED <<processor, simple_start, instances, calls, chunker, faults, detected_tables, chunks, overlapped_chunks>>

\* The caller takes the result; the chunker serves the next call
Return ==
    /\ pc \in {"create_chunks", "_create_smart_chunks"}
    /\ pc' = "constructed"
    /\ text' = <<>>
    /\ document_type' = "auto"
    /\ detected_tables' = <<>>
    /\ chunks' = <<>>
    /\ overlapped_chunks' = <<>>
    /\ final_chunks' = <<>>
    /\ processed_chunks' = <<>>
    /\ UNCHANGED <<processor, simple_start, instances, calls, chunker, faults>>

Next == Construct \/ CreateChunks \/ CreateSmartChunks \/ Return

Spec == Init /\ [][Next]_vars

-----------------------------------------------------------------------------
(* Properties of the pipeline, checked under Spec *)

\* The two inequalities the configuration is meant to satisfy
ValidConfiguration(self) ==
    /\ self.target_size <= self.max_size
    /\ self.overlap_size < self.target_size

\* C4: a configuration that violates target_size <= max_size or
\* overlap_size < target_size is rejected at construction time, so that no
\* constructed SmartChunker has such a configuration.
ConstructorRejectsInvalidConfiguration ==
    pc # "start" => ValidConfiguration(chunker)

\* The text has no character but whitespace (the empty text included)
WhitespaceOnly(t) == \A i \in DOMAIN t : t[i] \in Whitespace

\* C6: for an empty or whitespace-only text, create_chunks returns the empty
\* sequence, whatever the strategy, the document-type hint and the sizes.
BlankTextGivesNoChunks ==
    (pc \in {"create_chunks", "_create_smart_chunks"} /\ WhitespaceOnly(text))
        => final_chunks = <<>>

\* create_chunks has returned for a text of newlines and spaces under the
\* simple strategy, and for it returned nothing
BlankTextWitness ==
    /\ pc = "create_chunks"
    /\ chunker.strategy = "simple"
    /\ text # <<>>
    /\ WhitespaceOnly(text)
    /\ \E i \in DOMAIN text : text[i] = "\n"
    /\ final_chunks = <<>>

\* C7: every chunk create_chunks returns has a quality_score in [0.0, 1.0]
\* (0..10 in tenths).
QualityScoreInUnitInterval ==
    \A k \in DOMAIN final_chunks :
        /\ final_chunks[k].quality_score >= 0
        /\ final_chunks[k].quality_score <= 10

\* A returned chunk that ends a sentence, is within the size band and does not
\* start in lower case: the bonus takes its score to 1.1 before the clamp
QualityScoreWitness ==
    /\ pc = "create_chunks"
    /\ \E k \in DOMAIN final_chunks :
        /\ final_chunks[k].quality_score = 10
        /\ rstrip(overlapped_chunks[k]) # <<>>
        /\ rstrip(overlapped_chunks[k])[Len(rstrip(overlapped_chunks[k]))] \in SentencePunct

\* C8: in what create_chunks returns and in what the document processor's
\* wrapper returns, the chunk at output position k (counted from 0) has index k.
ChunkIndexIsPosition ==
    /\ \A k \in DOMAIN final_chunks : final_chunks[k].index = k - 1
    /\ \A k \in DOMAIN processed_chunks : processed_chunks[k].index = k - 1

\* The wrapper has returned three chunks or more
ChunkIndexWitness ==
    /\ pc = "_create_smart_chunks"
    /\ Len(processed_chunks) >= 3
    /\ Len(final_chunks) = Len(processed_chunks)

-----------------------------------------------------------------------------
(* The OverlapComposer on its own: _add_intelligent_overlap applied to the   *)
(* chunk strings of a segmenter                                              *)

OverlapAlphabet == {"a", " ", ".", "!"}

MaxChunkLen == 4

RECURSIVE StringsOver(_, _)
\* The strings of at most n characters of the alphabet
StringsOver(alphabet, n) ==
    IF n = 0 THEN {<<>>}
    ELSE LET shorter == StringsOver(alphabet, n - 1)
         IN  shorter \cup {Append(t, c) : t \in shorter, c \in alphabet}

\* Segmenters return stripped, non-empty chunk strings
PreviousChunks == {t \in StringsOver(OverlapAlphabet, MaxChunkLen) : t # <<>> /\ strip(t) = t}

CurrentChunks == {<<"b">>, <<"B", " ", "c", ".">>}

OverlapOnlySizes == {0, 2, 3}

\* How many chunks the segmenter returned, at most
MaxChunks == 3

InitOverlap ==
    /\ pc = "segmented"
    /\ \E overlap \in OverlapOnlySizes :
        chunker = SmartChunker(8, 12, overlap, "smart", DefaultTableOptions("preserve_structure"))
    /\ \E previous \in PreviousChunks, n \in 1..MaxChunks :
        \E later \in [1..(n - 1) -> CurrentChunks] : chunks = <<previous>> \o later
    /\ text = <<>>
    /\ document_type = "auto"
    /\ faults = NoFault
    /\ detected_tables = <<>>
    /\ overlapped_chunks = <<>>
    /\ final_chunks = <<>>
    /\ processed_chunks = <<>>
    /\ instances = <<>>
    /\ calls = <<>>
    /\ processor = NoProcessor
    /\ simple_start = 0

AddIntelligentOverlap ==
    /\ pc = "segmented"
    /\ overlapped_chunks' = _add_intelligent_overlap(chunker, chunks)
    /\ pc' = "overlapped"
    /\ UNCHANGED <<processor, simple_start, instances, calls, chunker, text, document_type, faults, detected_tables, chunks,
                   final_chunks, processed_chunks>>

NextOverlap == AddIntelligentOverlap

SpecOverlap == InitOverlap /\ [][NextOverlap]_vars

\* The text put in front of chunk i (i >= 2): what precedes the separator and
\* the chunk itself in the overlapped chunk; empty when no overlap was added
PrependedOverlap(i) ==
    IF overlapped_chunks[i] = chunks[i] THEN <<>>
    ELSE SubSeq(overlapped_chunks[i], 1,
                Len(overlapped_chunks[i]) - Len(chunks[i]) - Len(OverlapSeparator))

\* C2: where an overlap is added to chunk i, the text prepended is a verbatim
\* suffix of chunk i-1: its characters stand, unchanged and contiguous, at the
\* end of chunk i-1.
OverlapIsVerbatimSuffix ==
    pc = "overlapped" =>
        \A i \in 2..Len(chunks) : endswith(chunks[i - 1], PrependedOverlap(i))

\* C3: for overlap_size >= 1 the overlap taken from the previous chunk has at
\* most overlap_size characters.
OverlapWithinOverlapSize ==
    (pc = "overlapped" /\ chunker.overlap_size >= 1) =>
        \A i \in 2..Len(chunks) : Len(PrependedOverlap(i)) <= chunker.overlap_size

\* C14: the overlap step returns as many chunks as it is given, in the same
\* order: the first chunk is the first input chunk, and every later chunk ends
\* with the input chunk of its position, any text added standing in front of it.
OverlapKeepsChunks ==
    pc = "overlapped" =>
        /\ Len(overlapped_chunks) = Len(chunks)
        /\ overlapped_chunks[1] = chunks[1]
        /\ \A i \in 2..Len(chunks) :
            \/ overlapped_chunks[i] = chunks[i]
            \/ /\ Len(overlapped_chunks[i]) > Len(chunks[i])
               /\ endswith(overlapped_chunks[i], chunks[i])

\* The step has run on several chunks, adding an overlap in front of the second
\* and none to the last
OverlapKeepsChunksWitness ==
    /\ pc = "overlapped"
    /\ Len(chunks) = MaxChunks
    /\ chunks[2] # chunks[MaxChunks]
    /\ overlapped_chunks[2] # chunks[2]
    /\ overlapped_chunks[MaxChunks] = chunks[MaxChunks]

-----------------------------------------------------------------------------
(* create_chunks on markdown tables: one header row, one separator row and   *)
(* n data rows, under the table options of the constructor                   *)

MaxDataRows == 25

HeaderRow == <<"|", " ", "a", " ", "|", " ", "b", " ", "|">>

SeparatorRow == <<"|", "-", "-", "-", "|", "-", "-", "-", "|">>

DigitChars == <<"0", "1", "2", "3", "4", "5", "6", "7", "8", "9">>

\* str(n) for 0 <= n <= 99
Decimal(n) ==
    IF n < 10 THEN <<DigitChars[n + 1]>>
    ELSE <<DigitChars[(n \div 10) + 1], DigitChars[(n % 10) + 1]>>

\* The i-th data row: | r<i> | v<i> |
DataRow(i) ==
    <<"|", " ", "r">> \o Decimal(i) \o <<" ", "|", " ", "v">> \o Decimal(i) \o <<" ", "|">>

\* The rows a..b of the table, as lines
DataRows(a, b) == [k \in 1..(b - a + 1) |-> DataRow(a + k - 1)]

\* The table with n data rows, every line ended by a newline
MarkdownTable(n) ==
    join(<<HeaderRow, SeparatorRow>> \o DataRows(1, n), <<"\n">>) \o <<"\n">>

TableRowLimits == {5, 10}

TableOverlapSizes == {0, 100}

InitTables == Init

\* SmartChunker.__init__ with the default sizes and the table arguments given
ConstructForTables ==
    /\ pc = "start"
    /\ \E overlap \in TableOverlapSizes, table_strategy \in TableStrategies,
          rows \in TableRowLimits, headers \in BOOLEAN, grouping \in BOOLEAN :
            chunker' = SmartChunker(500, 800, overlap, "smart",
                                    [table_strategy |-> table_strategy,
                                     table_max_rows_per_chunk |-> rows,
                                     table_always_include_headers |-> headers,
                                     table_semantic_grouping |-> grouping,
                                     table_column_chunking |-> FALSE])
    /\ pc' = "constructed"
    /\ UNCHANGED <<processor, simple_start, instances, calls, text, document_type, faults, detected_tables, chunks,
                   overlapped_chunks, final_chunks, processed_chunks>>

CreateChunksOfTable == \E n \in 0..MaxDataRows : CreateChunksOf(MarkdownTable(n), "auto")

NextTables == ConstructForTables \/ CreateChunksOfTable \/ Return

SpecTables == InitTables /\ [][NextTables]_vars

\* The table chunk holding the header row, the separator row and the data
\* rows a..b
TableChunk(a, b) == join(<<HeaderRow, SeparatorRow>> \o DataRows(a, b), <<"\n">>)

\* C1: for the markdown table with 25 data rows, table_max_rows_per_chunk = 10
\* and table_always_include_headers = true, create_chunks (strategy smart,
\* table_strategy preserve_structure) produces exactly 3 table chunks: header
\* and separator with the data rows 1..10, 11..20 and 21..25.
TwentyFiveRowsGiveThreeChunks ==
    (/\ pc = "create_chunks"
     /\ text = MarkdownTable(25)
     /\ chunker.table_strategy = "preserve_structure"
     /\ chunker.table_max_rows_per_chunk = 10
     /\ chunker.table_always_include_headers)
        => /\ Len(final_chunks) = 3
           /\ final_chunks[1].text = TableChunk(1, 10)
           /\ final_chunks[2].text = TableChunk(11, 20)
           /\ final_chunks[3].text = TableChunk(21, 25)

-----------------------------------------------------------------------------
(* The TableDetector on its own: _detect_table_structures on a text, an      *)
(* exception being raised, or not, while one pattern family is processed     *)

DetectLines ==
    <<<<"|", "a", "|", "\n">>,
      <<"|", "-", "|", "\n">>,
      <<"a", ",", "b", "\n">>,
      <<"t", "\n">>,
      <<"x", "|", "a", "|", "\n">>,
      <<"|", "$", "|", "\n">>>>

MaxDetectLines == 3

DetectTexts == TextsOf(DetectLines, MaxDetectLines)

MaxFaultIndex == 2

\* No exception, or one exception: in one family, while its k-th match is
\* processed
FaultMaps ==
    {NoFault} \cup {[NoFault EXCEPT ![f] = k] : f \in Range(table_patterns), k \in 1..MaxFaultIndex}

InitDetect ==
    /\ pc = "text_given"
    /\ text \in DetectTexts
    /\ chunker = SmartChunker(500, 800, 100, "smart", DefaultTableOptions("preserve_structure"))
    /\ document_type = "auto"
    /\ faults = NoFault
    /\ detected_tables = <<>>
    /\ chunks = <<>>
    /\ overlapped_chunks = <<>>
    /\ final_chunks = <<>>
    /\ processed_chunks = <<>>
    /\ instances = <<>>
    /\ calls = <<>>
    /\ processor = NoProcessor
    /\ simple_start = 0

DetectTableStructures ==
    /\ pc = "text_given"
    /\ \E f \in FaultMaps :
        /\ faults' = f
        /\ detected_tables' = DetectTables(text, f)
    /\ pc' = "detected"
    /\ UNCHANGED <<processor, simple_start, instances, calls, chunker, text, document_type, chunks, overlapped_chunks, final_chunks,
                   processed_chunks>>

NextDetect == DetectTableStructures

SpecDetect == InitDetect /\ [][NextDetect]_vars

\* The family f raised: it has the match its fault is set at
Raised(f) == faults[f] > 0 /\ faults[f] <= Len(FindTables(f, text))

\* The faults under which every family that raised is skipped as a whole
SkippingFaultyFamilies == [f \in DOMAIN faults |-> IF Raised(f) THEN 1 ELSE 0]

\* C10: when processing one pattern family raises, the exception is caught,
\* the family contributes no spans, the other families are processed and
\* detection returns: the result is that of the other families alone.
FaultyFamilyContributesNoSpans ==
    pc = "detected" => detected_tables = DetectTables(text, SkippingFaultyFamilies)

\* C20: the spans detection returns are ordered by start offset and fully
\* merged: each span has start <= end, and each span after the first starts
\* strictly after the end of the span before it.
SpansOrderedAndMerged ==
    pc = "detected" =>
        /\ \A i \in DOMAIN detected_tables : detected_tables[i].start <= detected_tables[i].end
        /\ \A i \in 1..(Len(detected_tables) - 1) :
                detected_tables[i + 1].start > detected_tables[i].end

\* Detection has returned two spans, the first of them merged from the matches
\* of several families
SeparateSpansReturned ==
    /\ pc = "detected"
    /\ Len(detected_tables) >= 2
    /\ detected_tables[1].type # "formatted_rows"
    /\ detected_tables[1].row_count >= 2

\* The spans the families have appended, sorted by start, as the merge pass
\* receives them
SortedSpans(s, fault) ==
    SortByStart(Flatten([k \in DOMAIN table_patterns |->
                            FamilySpans(table_patterns[k], s, fault[table_patterns[k]])]))

\* The spans the merge pass has merged into the returned span m
MergedInto(m, tables) ==
    {k \in DOMAIN tables : m.start <= tables[k].start /\ tables[k].start <= m.end}

\* C21: the classification of a merged span is taken from the more specific
\* of the spans merged into it: when one of them is classified otherwise than
\* general (a general formatted_rows span merged with a later financial
\* span), the merged span is not classified general.
MergedClassificationIsMostSpecific ==
    pc = "detected" =>
        \A i \in DOMAIN detected_tables :
            \A tables \in {SortedSpans(text, faults)} :
                (\E k \in MergedInto(detected_tables[i], tables) :
                    tables[k].table_classification # "general")
                    => detected_tables[i].table_classification # "general"

\* C22: the kind of a returned span is formatted_rows only if every span
\* merged into it is of the formatted_rows family: when any of them has
\* another kind, wherever it comes in the order, the returned span has a kind
\* other than formatted_rows.
MergedKindIsGenericOnlyIfAllAre ==
    pc = "detected" =>
        \A i \in DOMAIN detected_tables :
            \A tables \in {SortedSpans(text, faults)} :
                (detected_tables[i].type = "formatted_rows")
                    <=> (\A k \in MergedInto(detected_tables[i], tables) :
                            tables[k].type = "formatted_rows")

\* Detection has returned a span merged from a formatted_rows span that comes
\* first and a span of another family that starts later in the same line
GenericSpanMergedWithLaterSpan ==
    /\ pc = "detected"
    /\ \E i \in DOMAIN detected_tables :
        \E tables \in {SortedSpans(text, faults)} :
            \E j, k \in MergedInto(detected_tables[i], tables) :
                /\ j < k
                /\ tables[j].type = "formatted_rows"
                /\ tables[k].type # "formatted_rows"
                /\ tables[k].start > tables[j].start
                /\ detected_tables[i].type = tables[k].type

-----------------------------------------------------------------------------
(* The table chunkers on their own: _chunk_table_intelligently on one of the *)
(* spans detected in a text made of table lines                              *)

TableLines ==
    <<<<"|", " ", "h", " ", "|", "\n">>,
      <<"|", " ", "-", " ", "|", "\n">>,
      <<"|", " ", "1", " ", "|", "\n">>,
      <<"a", ",", "b", "\n">>,
      <<"n", "o", "m", ",", "c", "\n">>>>

MaxTableLines == 4

TableTexts == TextsOf(TableLines, MaxTableLines) \ {<<>>}

\* <<target_chunk_size, max_chunk_size>>
TableChunkerSizes == {<<4, 8>>, <<20, 40>>, <<500, 800>>}

TableChunkerRowLimits == {1, 2, 10}

InitTableChunker ==
    /\ pc = "text_given"
    /\ text \in TableTexts
    /\ \E sizes \in TableChunkerSizes, rows \in TableChunkerRowLimits,
          headers \in BOOLEAN, grouping \in BOOLEAN :
            chunker = SmartChunker(sizes[1], sizes[2], 0, "smart",
                                   [table_strategy |-> "preserve_structure",
                                    table_max_rows_per_chunk |-> rows,
                                    table_always_include_headers |-> headers,
                                    table_semantic_grouping |-> grouping,
                                    table_column_chunking |-> FALSE])
    /\ document_type = "auto"
    /\ faults = NoFault
    /\ detected_tables = <<>>
    /\ chunks = <<>>
    /\ overlapped_chunks = <<>>
    /\ final_chunks = <<>>
    /\ processed_chunks = <<>>
    /\ instances = <<>>
    /\ calls = <<>>
    /\ processor = NoProcessor
    /\ simple_start = 0

\* One call of _chunk_table_intelligently in the loop of _table_aware_chunking,
\* on one of the spans detected in the text
ChunkTableIntelligently ==
    /\ pc = "text_given"
    /\ \E tables \in {_detect_table_structures(text)} :
        \E k \in DOMAIN tables :
            /\ detected_tables' = <<tables[k]>>
            /\ chunks' = _chunk_table_intelligently(chunker, tables[k])
    /\ pc' = "table_chunked"
    /\ UNCHANGED <<processor, simple_start, instances, calls, chunker, text, document_type, faults, overlapped_chunks,
                   final_chunks, processed_chunks>>

NextTableChunker == ChunkTableIntelligently

SpecTableChunker == InitTableChunker /\ [][NextTableChunker]_vars

SmallTableIsOneUnchangedChunk ==
    (/\ pc = "table_chunked"
     /\ detected_tables[1].type # "markdown"
     /\ Len(detected_tables[1].content) <= chunker.max_size)
        => chunks = <<detected_tables[1].content>>

\* How many of the lines are the line l
Occurrences(l, lines) == Cardinality({k \in DOMAIN lines : lines[k] = l})

\* The lines of a markdown table or table chunk after its header line and its
\* separator line
RowsAfterHeader(t) == SubSeq(SelectNonBlank(split(t, "\n")), 3, Len(SelectNonBlank(split(t, "\n"))))

\* C27: each source line inside a detected span is a data row of exactly one
\* of the chunks produced for the span: for a markdown table that the
\* formatted_rows family matches line by line as well, each data row of the
\* source text between start and end is emitted as often as it stands there,
\* none twice and none lost.
MergedRowsEmittedOnce ==
    (/\ pc = "table_chunked"
     /\ detected_tables[1].type = "markdown")
        => \A source_rows \in {RowsAfterHeader(SubSeq(text, detected_tables[1].start + 1,
                                                       detected_tables[1].end))} :
            \A emitted_rows \in {Flatten([i \in DOMAIN chunks |-> RowsAfterHeader(chunks[i])])} :
                \A l \in Range(source_rows) \cup Range(emitted_rows) :
                    Occurrences(l, emitted_rows) = Occurrences(l, source_rows)

\* The lines of a chunk of the large-table chunker that it took from the data
\* rows: all of them, but for the header lines put in front when
\* table_always_include_headers is set
DataRowsOfChunk(self, chunk, header_lines) ==
    IF self.table_always_include_headers
    THEN SubSeq(split(chunk, "\n"), Len(header_lines) + 1, Len(split(chunk, "\n")))
    ELSE split(chunk, "\n")

\* C28: the large-table chunker conserves the data rows, whether
\* table_always_include_headers is set or not: every data line of the table is
\* in exactly one returned chunk, in source order; when the flag is not set
\* and a group of a table with a header exceeds max_size, the subdivision
\* drops no data row and inserts no header line.
LargeTableConservesRows ==
    (/\ pc = "table_chunked"
     /\ detected_tables[1].type # "markdown"
     /\ detected_tables[1].row_count > chunker.table_max_rows_per_chunk * 2)
        => \A lines \in {NonBlankLines(detected_tables[1].content)} :
            \A header_lines \in {HeaderLines(detected_tables[1], lines)} :
                Flatten([i \in DOMAIN chunks |-> DataRowsOfChunk(chunker, chunks[i], header_lines)])
                    = SubSeq(lines, DataStartIndex(detected_tables[1], lines) + 1, Len(lines))

-----------------------------------------------------------------------------
(* The finalizer on its own: _finalize_chunks on one chunk made of pipes,    *)
(* list markers and words                                                    *)

ChunkPieces ==
    <<<<"|">>,
      <<"a", " ">>,
      <<"1", ".", " ">>,
      <<"\\", "d", "\\", ".">>,
      <<"-">>>>

MaxChunkPieces == 5

ChunkTexts == TextsOf(ChunkPieces, MaxChunkPieces) \ {<<>>}

InitFinalize ==
    /\ pc = "chunks_given"
    /\ chunker = SmartChunker(500, 800, 100, "smart", DefaultTableOptions("preserve_structure"))
    /\ \E t \in ChunkTexts : chunks = <<t>>
    /\ text = <<>>
    /\ document_type = "auto"
    /\ faults = NoFault
    /\ detected_tables = <<>>
    /\ overlapped_chunks = <<>>
    /\ final_chunks = <<>>
    /\ processed_chunks = <<>>
    /\ instances = <<>>
    /\ calls = <<>>
    /\ processor = NoProcessor
    /\ simple_start = 0

FinalizeChunks ==
    /\ pc = "chunks_given"
    /\ final_chunks' = _finalize_chunks(chunker, chunks)
    /\ pc' = "finalized"
    /\ UNCHANGED <<processor, simple_start, instances, calls, chunker, text, document_type, faults, detected_tables,
                   chunks, overlapped_chunks, processed_chunks>>

NextFinalize == FinalizeChunks

SpecFinalize == InitFinalize /\ [][NextFinalize]_vars

TableChunkTypes == {"azure_table", "markdown_table", "formatted_table"}

\* C24: the finalizer gives a chunk_type of the table family (azure_table,
\* markdown_table, formatted_table) to every chunk whose text holds at least
\* 4 pipe characters, exactly 4 included, and to no chunk that holds fewer.
TableTypeFromFourPipes ==
    pc = "finalized" =>
        \A i \in DOMAIN final_chunks :
            (final_chunks[i].chunk_type \in TableChunkTypes) <=> (count(chunks[i], "|") >= 4)

\* A numbered-list marker at index i: a run of digits followed by a period.
\* The index after it, 0 if none.
NumberedMarkerAt(t, i) ==
    IF i <= Len(t) /\ isdigit(t[i])
    THEN IF RunEnd(t, i, Digits) <= Len(t) /\ t[RunEnd(t, i, Digits)] = "."
         THEN RunEnd(t, i, Digits) + 1
         ELSE 0
    ELSE 0

CountNumberedMarkers(t) == Len(SelectMatches([j \in DOMAIN t |-> NumberedMarkerAt(t, j)], 1))

\* C25: the finalizer gives the chunk_type list to every chunk that is not of
\* the table family and holds at least 3 numbered-list markers (a run of
\* digits followed by a period): ordinary numbered-list text is typed list.
NumberedListIsTypedList ==
    pc = "finalized" =>
        \A i \in DOMAIN final_chunks :
            (/\ final_chunks[i].chunk_type \notin TableChunkTypes
             /\ CountNumberedMarkers(chunks[i]) >= 3)
                => final_chunks[i].chunk_type = "list"

-----------------------------------------------------------------------------
(* The legal segmenter on its own: _legal_chunking on a text made of the      *)
(* sections "Article 1" .. "Article n"                                        *)

ArticleCount == 5

\* What follows the heading of an article; none holds a boundary of its own
ArticleBodies ==
    <<<<"\n">>,
      <<" ", "x", ".", "\n">>,
      <<"\n", "A", "b", " ", "c", ".", " ", "D", "e", " ", "f", "!", "\n">>>>

Heading(k) == <<"A", "r", "t", "i", "c", "l", "e", " ">> \o Decimal(k)

RECURSIVE ArticleTexts(_)
\* The texts made of the sections Article 1 .. Article n
ArticleTexts(n) ==
    IF n = 0 THEN {<<>>}
    ELSE {t \o Heading(n) \o ArticleBodies[b] : t \in ArticleTexts(n - 1), b \in DOMAIN ArticleBodies}

LegalMaxSizes == {12, 24}

InitLegal ==
    /\ pc = "text_given"
    /\ text \in ArticleTexts(ArticleCount)
    /\ \E max \in LegalMaxSizes :
        chunker = SmartChunker(8, max, 0, "smart", DefaultTableOptions("preserve_structure"))
    /\ document_type = "legal"
    /\ faults = NoFault
    /\ detected_tables = <<>>
    /\ chunks = <<>>
    /\ overlapped_chunks = <<>>
    /\ final_chunks = <<>>
    /\ processed_chunks = <<>>
    /\ instances = <<>>
    /\ calls = <<>>
    /\ processor = NoProcessor
    /\ simple_start = 0

LegalChunking ==
    /\ pc = "text_given"
    /\ chunks' = _legal_chunking(chunker, text)
    /\ pc' = "segmented"
    /\ UNCHANGED <<processor, simple_start, instances, calls, chunker, text, document_type, faults, detected_tables, overlapped_chunks,
                   final_chunks, processed_chunks>>

NextLegal == LegalChunking

SpecLegal == InitLegal /\ [][NextLegal]_vars

\* Where the heading of article k starts in the text (0-based), the length of
\* the text for k = ArticleCount + 1
HeadingStart(k) == IF k > ArticleCount THEN Len(text) ELSE find(text, Heading(k), 0)

\* Every section is shorter than max_size
SectionsUnderMaxSize ==
    \A k \in 1..ArticleCount : HeadingStart(k + 1) - HeadingStart(k) < chunker.max_size

\* C5: for a text made of the sections Article 1 .. Article 5 (the headings
\* being its only boundaries), each shorter than max_size, the legal segmenter
\* gives exactly 5 chunks, in source order: chunk k is section k, and holds the
\* heading of no other article.
OneChunkPerArticle ==
    (pc = "segmented" /\ SectionsUnderMaxSize) =>
        /\ Len(chunks) = ArticleCount
        /\ \A k \in 1..ArticleCount :
            /\ chunks[k] = strip(SubSeq(text, HeadingStart(k) + 1, HeadingStart(k + 1)))
            /\ \A j \in 1..ArticleCount : j # k => ~contains(chunks[k], Heading(j))

\* The segmenter has run on five sections of two or more sentences each, all
\* under max_size
OneChunkPerArticleWitness ==
    /\ pc = "segmented"
    /\ SectionsUnderMaxSize
    /\ \A k \in 1..ArticleCount : HeadingStart(k + 1) - HeadingStart(k) > 20
    /\ Len(chunks) = ArticleCount

-----------------------------------------------------------------------------
(* The DocumentTypeClassifier on its own: _detect_document_type on a text    *)

ClassifierFragments ==
    <<<<"A", "r", "t", "i", "c", "l", "e", " ", "1", "2", " ">>,
      <<"t", "h", "e", " ", "C", "l", "a", "u", "s", "e", ".", " ">>,
      <<"d", "e", "f", " ", "f", "o", "o", "(", ")", ":", "\n">>,
      <<"i", "m", "p", "o", "r", "t", " ", "o", "s", "\n">>,
      <<"1", ".", " ", "x", "\n">>,
      <<"A", "b", " ", "c", ".", "\n">>>>

MaxClassifierFragments == 4

ClassifierTexts == TextsOf(ClassifierFragments, MaxClassifierFragments)

InitClassify ==
    /\ pc = "text_given"
    /\ text \in ClassifierTexts
    /\ chunker = SmartChunker(500, 800, 100, "smart", DefaultTableOptions("preserve_structure"))
    /\ document_type = "auto"
    /\ faults = NoFault
    /\ detected_tables = <<>>
    /\ chunks = <<>>
    /\ overlapped_chunks = <<>>
    /\ final_chunks = <<>>
    /\ processed_chunks = <<>>
    /\ instances = <<>>
    /\ calls = <<>>
    /\ processor = NoProcessor
    /\ simple_start = 0

DetectDocumentType ==
    /\ pc = "text_given"
    /\ document_type' = _detect_document_type(text)
    /\ pc' = "classified"
    /\ UNCHANGED <<processor, simple_start, instances, calls, chunker, text, faults, detected_tables, chunks, overlapped_chunks,
                   final_chunks, processed_chunks>>

NextClassify == DetectDocumentType

SpecClassify == InitClassify /\ [][NextClassify]_vars

LegalWords ==
    {<<"a", "r", "t", "i", "c", "l", "e">>,
     <<"s", "e", "c", "t", "i", "o", "n">>,
     <<"c", "l", "a", "u", "s", "e">>,
     <<"w", "h", "e", "r", "e", "a", "s">>}

CodeWords ==
    {<<"f", "u", "n", "c", "t", "i", "o", "n">>,
     <<"c", "l", "a", "s", "s">>,
     <<"i", "m", "p", "o", "r", "t">>,
     <<"d", "e", "f">>,
     <<"v", "a", "r">>}

\* The line starts, after any whitespace, with digits and a dot
NumberedLine(line) ==
    /\ RunEnd(line, RunEnd(line, 1, Whitespace), Digits) > RunEnd(line, 1, Whitespace)
    /\ RunEnd(line, RunEnd(line, 1, Whitespace), Digits) <= Len(line)
    /\ line[RunEnd(line, RunEnd(line, 1, Whitespace), Digits)] = "."

\* How many lines of t are numbered
NumberedLineCount(t) == Len(SelectSeq(split(t, "\n"), NumberedLine))

\* The type the decision order gives for the lower-cased text t
DecisionOrder(t) ==
    IF \E w \in LegalWords : contains(t, w) THEN "legal"
    ELSE IF \E w \in CodeWords : contains(t, w) THEN "code"
    ELSE IF NumberedLineCount(t) > 3 THEN "technical"
    ELSE "narrative"

DefFoo == <<"d", "e", "f", " ", "f", "o", "o", "(", ")", ":">>

ImportOs == <<"i", "m", "p", "o", "r", "t", " ", "o", "s">>

Article12 == <<"A", "r", "t", "i", "c", "l", "e", " ", "1", "2">>

\* C9: the classifier applies its rules in a fixed order, the first match
\* winning: legal keywords, then code keywords, then more than 3 numbered
\* lines, else narrative.  A text with "def foo():" and "import os" (and no legal
\* keyword) is code, a text with "Article 12" and "clause" is legal, the empty
\* text is narrative.
ClassifierFollowsDecisionOrder ==
    pc = "classified" =>
        /\ document_type = DecisionOrder(lower(text))
        /\ (/\ contains(text, DefFoo) /\ contains(text, ImportOs)
            /\ ~\E w \in LegalWords : contains(lower(text), w)) => document_type = "code"
        /\ (contains(text, Article12) /\ contains(lower(text), <<"c", "l", "a", "u", "s", "e">>))
                => document_type = "legal"
        /\ text = <<>> => document_type = "narrative"

\* A text holding "def foo():", "import os" and "Article 12" has been classified:
\* the legal rule wins over the code rule
ClassifierWitness ==
    /\ pc = "classified"
    /\ contains(text, DefFoo)
    /\ contains(text, ImportOs)
    /\ contains(text, Article12)
    /\ document_type = "legal"

-----------------------------------------------------------------------------
(* create_chunks statement by statement, called by several callers on shared *)
(* SmartChunker instances.  Each caller has its own frame of local variables; *)
(* a step of a caller is one statement of create_chunks, or one iteration of  *)
(* the while loop of _simple_chunking.                                         *)

NumCallers == 2

Callers == 1..NumCallers

NumInstances == 2

Instances == 1..NumInstances

CallerTexts ==
    {<<>>,
     <<" ">>,
     <<" ", "A", "r", "t", "i", "c", "l", "e", " ", "1", "\n", "\n", "x">>,
     <<"A", "b", " ", "c", ".", " ", "d", "e", "!", " ">>,
     <<"|", "a", "|", "\n", "|", "-", "|", "\n", "|", "1", "|", "\n">>}

CallerHints == {"auto", "narrative"}

\* The configurations the instances are constructed with
CallerConfigs ==
    {SmartChunker(3, 6, 0, "simple", DefaultTableOptions("preserve_structure")),
     SmartChunker(8, 12, 4, "smart", DefaultTableOptions("preserve_structure")),
     SmartChunker(8, 12, 4, "smart", DefaultTableOptions("split")),
     SmartChunker(8, 12, 4, "semantic", DefaultTableOptions("preserve_structure"))}

\* The caller the single-caller runs are about
FirstCaller == Min(Callers)

\* The frame of a caller that is not in a call: hint is the document_type
\* argument as passed, document_type the local variable the call reassigns
IdleFrame ==
    [pc |-> "idle", self |-> 0, text |-> <<>>, hint |-> "auto", document_type |-> "auto",
     detected_tables |-> <<>>, segmenter |-> "none", chunks |-> <<>>, start |-> 0,
     overlapped_chunks |-> <<>>, final_chunks |-> <<>>]

\* The branch taken when the table strategy is not looked at
SegmenterOfTablesFound(self, dtype, tables) ==
    IF tables # <<>> THEN "_table_aware_chunking"
    ELSE IF dtype = "legal" THEN "_legal_chunking"
    ELSE IF dtype = "technical" THEN "_technical_chunking"
    ELSE IF dtype = "code" THEN "_code_chunking"
    ELSE "_narrative_chunking"

\* The branch the smart strategy takes: the test of create_chunks on the
\* detected tables, then the if-chain of _smart_chunking on the document type
SegmenterOf(self, dtype, tables) ==
    IF tables # <<>> /\ self.table_strategy = "preserve_structure" THEN "_table_aware_chunking"
    ELSE IF dtype = "legal" THEN "_legal_chunking"
    ELSE IF dtype = "technical" THEN "_technical_chunking"
    ELSE IF dtype = "code" THEN "_code_chunking"
    ELSE "_narrative_chunking"

\* The call of the segmenter of that name
RunSegmenter(segmenter, self, t, tables) ==
    CASE segmenter = "_table_aware_chunking" -> _table_aware_chunking(self, t, tables)
      [] segmenter = "_legal_chunking" -> _legal_chunking(self, t)
      [] segmenter = "_technical_chunking" -> _technical_chunking(self, t)
      [] segmenter = "_code_chunking" -> _code_chunking(self, t)
      [] segmenter = "_semantic_chunking" -> _semantic_chunking(self, t)
      [] OTHER -> _narrative_chunking(self, t)

\* The document type read from the frame of the first caller, as if it were
\* kept on the shared instance
DocumentTypeOfFirstCaller(frames, c) == frames[FirstCaller].document_type

\* The local variable document_type the strategy dispatch of caller c passes on
DocumentTypeOf(frames, c) == frames[c].document_type

\* The chunks read from the frame of the first caller, as if they were kept on
\* the shared instance
ChunksOfFirstCaller(frames, c) == frames[FirstCaller].chunks

\* The local variable chunks the overlap statement of caller c reads
ChunksOf(frames, c) == frames[c].chunks

InitCallers ==
    /\ pc = "callers"
    /\ chunker = NoChunker
    /\ text = <<>>
    /\ document_type = "auto"
    /\ faults = NoFault
    /\ detected_tables = <<>>
    /\ chunks = <<>>
    /\ overlapped_chunks = <<>>
    /\ final_chunks = <<>>
    /\ processed_chunks = <<>>
    /\ instances \in [Instances -> CallerConfigs]
    /\ calls = [c \in Callers |-> IdleFrame]
    /\ processor = NoProcessor
    /\ simple_start = 0

\* The step of caller c that leaves its frame as f; nothing else is written
StepTo(c, f) ==
    /\ calls' = [calls EXCEPT ![c] = f]
    /\ UNCHANGED <<pc, chunker, text, document_type, faults, detected_tables, chunks,
                   overlapped_chunks, final_chunks, processed_chunks, instances,
                   processor, simple_start>>

\* Caller c calls create_chunks(t, hint) on an instance
Call(c) ==
    /\ calls[c].pc = "idle"
    /\ \E i \in Instances, t \in CallerTexts, hint \in CallerHints :
        StepTo(c, [IdleFrame EXCEPT !.pc = "guard", !.self = i, !.text = t,
                                    !.hint = hint, !.document_type = hint])

\* if not text or not text.strip(): return []
Guard(c) ==
    /\ calls[c].pc = "guard"
    /\ StepTo(c, IF IsBlank(calls[c].text)
                 THEN [calls[c] EXCEPT !.pc = "returned", !.final_chunks = <<>>]
                 ELSE [calls[c] EXCEPT !.pc = "classify"])

\* if document_type == "auto": document_type = self._detect_document_type(text)
Classify(c) ==
    /\ calls[c].pc = "classify"
    /\ StepTo(c, [calls[c] EXCEPT
                    !.pc = "strategy",
                    !.document_type = IF @ = "auto" THEN _detect_document_type(calls[c].text)
                                      ELSE @])
\* The strategy dispatch of create_chunks under "smart": the tables are
\* detected, then _table_aware_chunking or _smart_chunking (which detects the
\* tables again) is called
SmartStrategy(c) ==
    /\ calls[c].pc = "strategy"
    /\ instances[calls[c].self].strategy = "smart"
    /\ \E tables \in {_detect_table_structures(calls[c].text)} :
        IF tables # <<>> /\ instances[calls[c].self].table_strategy = "preserve_structure"
        THEN StepTo(c, [calls[c] EXCEPT
                          !.pc = "segmented",
                          !.detected_tables = tables,
                          !.segmenter = "_table_aware_chunking",
                          !.chunks = _table_aware_chunking(instances[calls[c].self],
                                                           calls[c].text, tables)])
        ELSE \E again \in {_detect_table_structures(calls[c].text)} :
             \E name \in {SegmenterOf(instances[calls[c].self], DocumentTypeOf(calls, c), again)} :
                StepTo(c, [calls[c] EXCEPT
                             !.pc = "segmented",
                             !.detected_tables = tables,
                             !.segmenter = name,
                             !.chunks = RunSegmenter(name, instances[calls[c].self],
                                                     calls[c].text, again)])

\* elif self.strategy == "semantic": chunks = self._semantic_chunking(text)
SemanticStrategy(c) ==
    /\ calls[c].pc = "strategy"
    /\ instances[calls[c].self].strategy = "semantic"
    /\ StepTo(c, [calls[c] EXCEPT
                    !.pc = "segmented",
                    !.segmenter = "_semantic_chunking",
                    !.chunks = _semantic_chunking(instances[calls[c].self], calls[c].text)])

\* else: chunks = self._simple_chunking(text), entered: chunks = [], start = 0
SimpleStrategy(c) ==
    /\ calls[c].pc = "strategy"
    /\ instances[calls[c].self].strategy \notin {"smart", "semantic"}
    /\ StepTo(c, [calls[c] EXCEPT !.pc = "simple_loop", !.segmenter = "_simple_chunking",
                                  !.chunks = <<>>, !.start = 0])

\* The frame after one iteration of the while loop that ends its chunk at end_
\* and strips chunk_text out of it
AfterSimpleIteration(frame, end_, chunk_text) ==
    [frame EXCEPT
       !.chunks = IF chunk_text # <<>> THEN Append(@, chunk_text) ELSE @,
       !.start = IF end_ >= Len(frame.text) THEN @ ELSE end_,
       !.pc = IF end_ >= Len(frame.text) THEN "segmented" ELSE "simple_loop"]

\* One test of `while start < len(text)`, and the iteration that follows it
SimpleStep(c) ==
    /\ calls[c].pc = "simple_loop"
    /\ IF calls[c].start >= Len(calls[c].text)
       THEN StepTo(c, [calls[c] EXCEPT !.pc = "segmented"])
       ELSE \E end_ \in {SimpleChunkEnd(instances[calls[c].self], calls[c].text,
                                        calls[c].start)} :
                StepTo(c, AfterSimpleIteration(
                              calls[c], end_,
                              strip(SubSeq(calls[c].text, calls[c].start + 1, end_))))

\* overlapped_chunks = self._add_intelligent_overlap(chunks, text)
AddOverlap(c) ==
    /\ calls[c].pc = "segmented"
    /\ StepTo(c, [calls[c] EXCEPT
                    !.pc = "overlapped",
                    !.overlapped_chunks =
                        _add_intelligent_overlap(instances[calls[c].self], ChunksOf(calls, c))])

\* final_chunks = self._finalize_chunks(overlapped_chunks); return final_chunks
Finalize(c) ==
    /\ calls[c].pc = "overlapped"
    /\ StepTo(c, [calls[c] EXCEPT
                    !.pc = "returned",
                    !.final_chunks =
                        _finalize_chunks(instances[calls[c].self], calls[c].overlapped_chunks)])

\* The caller takes the returned list and is free to call again
TakeResult(c) ==
    /\ calls[c].pc = "returned"
    /\ StepTo(c, IdleFrame)

\* A statement of the call of caller c
CallStep(c) ==
    \/ Guard(c)
    \/ Classify(c)
    \/ SmartStrategy(c)
    \/ SemanticStrategy(c)
    \/ SimpleStrategy(c)
    \/ SimpleStep(c)
    \/ AddOverlap(c)
    \/ Finalize(c)

NextCallers ==
    \/ \E c \in Callers : Call(c)
    \/ \E c \in Callers : Guard(c)
    \/ \E c \in Callers : Classify(c)
    \/ \E c \in Callers : SmartStrategy(c)
    \/ \E c \in Callers : SemanticStrategy(c)
    \/ \E c \in Callers : SimpleStrategy(c)
    \/ \E c \in Callers : SimpleStep(c)
    \/ \E c \in Callers : AddOverlap(c)
    \/ \E c \in Callers : Finalize(c)
    \/ \E c \in Callers : TakeResult(c)

SpecCallers == InitCallers /\ [][NextCallers]_vars

\* One caller alone, calling again and again
NextOneCaller ==
    \/ Call(FirstCaller)
    \/ Guard(FirstCaller)
    \/ Classify(FirstCaller)
    \/ SmartStrategy(FirstCaller)
    \/ SemanticStrategy(FirstCaller)
    \/ SimpleStrategy(FirstCaller)
    \/ SimpleStep(FirstCaller)
    \/ AddOverlap(FirstCaller)
    \/ Finalize(FirstCaller)
    \/ TakeResult(FirstCaller)

\* Caller c has a statement to run that changes its frame: every statement but
\* an iteration of the while loop moves to the next statement
CanStep(c) ==
    IF calls[c].pc = "simple_loop" THEN ENABLED <<SimpleStep(c)>>_vars
    ELSE calls[c].pc \in {"guard", "classify", "strategy", "segmented", "overlapped"}

\* Weak fairness of the statements of caller c: its thread keeps running
\* while it is inside create_chunks
KeepsRunning(c) == []<>(~CanStep(c)) \/ []<><<CallStep(c)>>_vars

SpecOneCaller == InitCallers /\ [][NextOneCaller]_vars /\ KeepsRunning(FirstCaller)
-----------------------------------------------------------------------------
(* Properties of the calls, checked under SpecOneCaller and SpecCallers *)

\* C11: create_chunks is total (the sizes being character counts of 1 or more):
\* every call that is entered returns its chunk sequence, under every
\* scheduling that keeps running its thread; and each iteration of the cursor
\* loop of _simple_chunking that stays in the loop moves the cursor forward.
CreateChunksTerminates ==
    /\ (calls[FirstCaller].pc = "guard") ~> (calls[FirstCaller].pc = "returned")
    /\ [][\A c \in Callers :
            (calls[c].pc = "simple_loop" /\ calls'[c].pc = "simple_loop"
                /\ calls'[c] # calls[c])
                => calls'[c].start > calls[c].start]_vars

\* A call has returned two or more chunks from the cursor loop of _simple_chunking
SimpleLoopReturned ==
    \E c \in Callers :
        /\ calls[c].pc = "returned"
        /\ calls[c].segmenter = "_simple_chunking"
        /\ calls[c].start > 0
        /\ Len(calls[c].final_chunks) >= 2
\* C12: two calls of create_chunks with identical text, identical hint and
\* identical configuration (on one instance or on two instances constructed
\* alike) return identical chunk sequences, whatever calls came before.
SameInputSameChunks ==
    \A c, d \in Callers :
        (/\ calls[c].pc = "returned" /\ calls[d].pc = "returned"
         /\ calls[c].text = calls[d].text
         /\ calls[c].hint = calls[d].hint
         /\ instances[calls[c].self] = instances[calls[d].self])
            => calls[c].final_chunks = calls[d].final_chunks

\* Two calls with the same text and hint have returned chunks from two
\* instances constructed with the same configuration
SameInputOnTwoInstances ==
    \E c, d \in Callers :
        /\ calls[c].pc = "returned" /\ calls[d].pc = "returned"
        /\ calls[c].self # calls[d].self
        /\ instances[calls[c].self] = instances[calls[d].self]
        /\ calls[c].text = calls[d].text
        /\ calls[c].hint = calls[d].hint
        /\ Len(calls[c].final_chunks) >= 2

\* C13: under every interleaving of the statements of concurrent calls on
\* shared instances, each call returns what it returns when run alone, and a
\* statement of one call writes nothing but the frame of that call.
CallsDoNotInterfere ==
    /\ [](\A c \in Callers :
            calls[c].pc = "returned" =>
                calls[c].final_chunks = create_chunks(instances[calls[c].self],
                                                      calls[c].text, calls[c].hint))
    /\ [][/\ instances' = instances
          /\ \E c \in Callers : \A d \in Callers \ {c} : calls'[d] = calls[d]]_vars

\* A call has returned its chunks while another call, on the same instance and on
\* another text, was between its segmenter and its overlap statement
InterleavedCallReturned ==
    \E c, d \in Callers :
        /\ calls[c].pc = "returned"
        /\ Len(calls[c].final_chunks) >= 2
        /\ calls[d].pc = "segmented"
        /\ calls[d].self = calls[c].self
        /\ calls[d].text # calls[c].text
        /\ calls[d].chunks # <<>>
-----------------------------------------------------------------------------
(* The narrative segmenter on its own: _narrative_chunking on texts made of  *)
(* paragraphs separated by blank lines                                        *)

\* The length of the paragraphs of the 3-paragraph example
ParagraphLength == 100

LongParagraph == [i \in 1..ParagraphLength |-> "x"]

ShortParagraphs ==
    <<<<"a">>,
      <<"A", "b", " ", "c", ".">>,
      <<"A", "b", " ", "c", ".", " ", "D", "e", " ", "f", ".">>,
      <<"A", "b", " ", "c", ".", " ", "D", "e", " ", "f", ".", " ", "G", "h", " ", "i", ".">>>>

\* The paragraphs the texts are made of: none holds a newline or a backslash
ParagraphPool == ShortParagraphs \o <<LongParagraph>>

MaxParagraphs == 3

BlankLine == <<"\n", "\n">>

\* The texts of n paragraphs of the pool, a blank line between two paragraphs
RECURSIVE ParagraphTexts(_)
ParagraphTexts(n) ==
    IF n = 1 THEN {ParagraphPool[k] : k \in DOMAIN ParagraphPool}
    ELSE {t \o BlankLine \o ParagraphPool[k] : t \in ParagraphTexts(n - 1),
                                                k \in DOMAIN ParagraphPool}

\* <<target_chunk_size, max_chunk_size>>
NarrativeSizes == {<<8, 12>>, <<16, 20>>, <<500, 800>>}

InitNarrative ==
    /\ pc = "text_given"
    /\ \E sizes \in NarrativeSizes :
        chunker = SmartChunker(sizes[1], sizes[2], 0, "smart",
                               DefaultTableOptions("preserve_structure"))
    /\ \E n \in 1..MaxParagraphs : text \in ParagraphTexts(n)
    /\ document_type = "narrative"
    /\ faults = NoFault
    /\ detected_tables = <<>>
    /\ chunks = <<>>
    /\ overlapped_chunks = <<>>
    /\ final_chunks = <<>>
    /\ processed_chunks = <<>>
    /\ instances = <<>>
    /\ calls = <<>>
    /\ processor = NoProcessor
    /\ simple_start = 0

NarrativeChunking ==
    /\ pc = "text_given"
    /\ chunks' = _narrative_chunking(chunker, text)
    /\ pc' = "segmented"
    /\ UNCHANGED <<processor, simple_start, instances, calls, chunker, text, document_type, faults, detected_tables,
                   overlapped_chunks, final_chunks, processed_chunks>>

NextNarrative == NarrativeChunking

SpecNarrative == InitNarrative /\ [][NextNarrative]_vars

\* The paragraphs of the text: its non-empty lines
ParagraphsOfText == SelectSeq(split(text, "\n"), LAMBDA line : line # <<>>)

\* Paragraphs i..j joined by the separator the segmenter inserts
JoinedParagraphs(ps, i, j) == join(SubSeq(ps, i, j), ParagraphJoiner)

\* C15 as stated: whatever consecutive paragraphs have a combined length, with
\* the separators, of at most target_size stand together in one chunk.
ConsecutiveParagraphsNeverSplit ==
    pc = "segmented" =>
        \A i \in DOMAIN ParagraphsOfText : \A j \in DOMAIN ParagraphsOfText :
            (i < j /\ Len(JoinedParagraphs(ParagraphsOfText, i, j)) <= chunker.target_size)
                => \E k \in DOMAIN chunks :
                        contains(chunks[k], JoinedParagraphs(ParagraphsOfText, i, j))

\* C15, amended: when all the paragraphs of the text have a combined length,
\* with the separators inserted between them, of at most target_size, the
\* narrative segmenter returns one chunk that holds them all; this is so for 3
\* paragraphs of 100 characters under target_size 500.
WholeTextWithinTargetIsOneChunk ==
    (pc = "segmented"
        /\ Len(JoinedParagraphs(ParagraphsOfText, 1, Len(ParagraphsOfText)))
                <= chunker.target_size)
        => chunks = <<JoinedParagraphs(ParagraphsOfText, 1, Len(ParagraphsOfText))>>

\* The segmenter has packed 3 paragraphs of 100 characters into one chunk under
\* target_size 500
ThreeParagraphsOneChunk ==
    /\ pc = "segmented"
    /\ chunker.target_size = 500
    /\ ParagraphsOfText = <<LongParagraph, LongParagraph, LongParagraph>>
    /\ Len(chunks) = 1
\* Every sentence of every paragraph of the text is shorter than target_size
SentencesShorterThanTarget ==
    \A i \in DOMAIN ParagraphsOfText :
        \A sentence \in Range(StripAll(split_sentences(ParagraphsOfText[i]))) :
            Len(sentence) < chunker.target_size

\* C18: in a text whose sentences are all shorter than target_size, no paragraph
\* longer than max_size is emitted whole, whether the buffer is empty or not when
\* the paragraph is reached, and no chunk is longer than max_size.
LongParagraphsAreSplit ==
    (pc = "segmented" /\ SentencesShorterThanTarget) =>
        /\ \A i \in DOMAIN ParagraphsOfText :
            Len(ParagraphsOfText[i]) > chunker.max_size
                => \A k \in DOMAIN chunks : ~contains(chunks[k], ParagraphsOfText[i])
        /\ \A k \in DOMAIN chunks : Len(chunks[k]) <= chunker.max_size

\* C19: a chunk in which two or more paragraphs are packed, the separators
\* inserted between them counted, is at most target_size long.
PackedChunkWithinTarget ==
    pc = "segmented" =>
        \A k \in DOMAIN chunks :
            contains(chunks[k], ParagraphJoiner) => Len(chunks[k]) <= chunker.target_size
\* The segmenter that goes with a document type
TypeSegmenter(dtype) ==
    CASE dtype = "legal" -> "_legal_chunking"
      [] dtype = "technical" -> "_technical_chunking"
      [] dtype = "code" -> "_code_chunking"
      [] OTHER -> "_narrative_chunking"

\* The call in frame f has run its segmenter
HasSegmented(f) ==
    \/ f.pc \in {"segmented", "overlapped"}
    \/ f.pc = "returned" /\ f.segmenter # "none"

\* C16: under the smart strategy the table-aware segmenter is the one run
\* exactly when tables were detected and table_strategy is preserve_structure,
\* and otherwise the segmenter of the document type is run; the statement after
\* the segmenter applies the overlap to its chunks, and the one after that
\* finalizes the overlapped chunks and returns.
SegmenterThenOverlapThenFinalize ==
    /\ [](\A c \in Callers :
            (HasSegmented(calls[c]) /\ instances[calls[c].self].strategy = "smart") =>
                IF /\ calls[c].detected_tables # <<>>
                   /\ instances[calls[c].self].table_strategy = "preserve_structure"
                THEN calls[c].segmenter = "_table_aware_chunking"
                ELSE calls[c].segmenter = TypeSegmenter(calls[c].document_type))
    /\ [][\A c \in Callers :
            /\ (calls[c].pc = "segmented" /\ calls'[c] # calls[c]) =>
                    /\ calls'[c].pc = "overlapped"
                    /\ calls'[c].overlapped_chunks =
                         _add_intelligent_overlap(instances[calls[c].self], calls[c].chunks)
            /\ (calls[c].pc = "overlapped" /\ calls'[c] # calls[c]) =>
                    /\ calls'[c].pc = "returned"
                    /\ calls'[c].final_chunks =
                         _finalize_chunks(instances[calls[c].self],
                                          calls[c].overlapped_chunks)
            /\ (calls'[c].pc = "returned" /\ calls[c].pc # "returned") =>
                    calls[c].pc \in {"guard", "overlapped"}]_vars

\* A call under the smart strategy has detected tables and returned the chunks
\* of the table-aware segmenter, overlapped and finalized
TableAwareCallReturned ==
    /\ calls[FirstCaller].pc = "returned"
    /\ instances[calls[FirstCaller].self].strategy = "smart"
    /\ calls[FirstCaller].detected_tables # <<>>
    /\ calls[FirstCaller].segmenter = "_table_aware_chunking"
    /\ calls[FirstCaller].overlapped_chunks # <<>>
    /\ calls[FirstCaller].final_chunks # <<>>
-----------------------------------------------------------------------------
(* The technical segmenter on its own: _technical_chunking on texts made of  *)
(* sections, each opened by a heading that one of section_patterns matches    *)

\* Sections under a markdown header, a numbered heading and a Section N
\* heading; the heading is the only boundary match of a section
TechnicalSections ==
    <<<<"#", " ", "A", "\n", "x", "\n">>,
      <<"1", ".", " ", "A", "b", " ", "c", "\n">>,
      <<"S", "e", "c", "t", "i", "o", "n", " ", "2", " ", "y", "\n">>,
      <<"#", "#", " ", "B", "\n">>>>

MaxSections == 3

RECURSIVE SectionTexts(_)
\* The texts of n sections
SectionTexts(n) ==
    IF n = 0 THEN {<<>>}
    ELSE {t \o TechnicalSections[k] : t \in SectionTexts(n - 1),
                                       k \in DOMAIN TechnicalSections}

\* What the text holds before its first section: nothing, or a line that no
\* section pattern matches
LeadingTexts == {<<>>, <<"p", "r", "e", "\n">>}

TechnicalMaxSizes == {12, 40}

InitTechnical ==
    /\ pc = "text_given"
    /\ \E max \in TechnicalMaxSizes :
        chunker = SmartChunker(8, max, 0, "smart", DefaultTableOptions("preserve_structure"))
    /\ \E n \in 1..MaxSections :
        text \in {lead \o t : lead \in LeadingTexts, t \in SectionTexts(n)}
    /\ document_type = "technical"
    /\ faults = NoFault
    /\ detected_tables = <<>>
    /\ chunks = <<>>
    /\ overlapped_chunks = <<>>
    /\ final_chunks = <<>>
    /\ processed_chunks = <<>>
    /\ instances = <<>>
    /\ calls = <<>>
    /\ processor = NoProcessor
    /\ simple_start = 0

TechnicalChunking ==
    /\ pc = "text_given"
    /\ chunks' = _technical_chunking(chunker, text)
    /\ pc' = "segmented"
    /\ UNCHANGED <<processor, simple_start, instances, calls, chunker, text, document_type, faults, detected_tables,
                   overlapped_chunks, final_chunks, processed_chunks>>

NextTechnical == TechnicalChunking

SpecTechnical == InitTechnical /\ [][NextTechnical]_vars

\* The offsets (0-based) where a section-boundary pattern matches in the text
BoundaryStarts ==
    UNION {Range(MatchStarts(section_patterns[k], lower(text))) : k \in DOMAIN section_patterns}

\* The k-th boundary match in source order; the end of the text after the last
BoundaryAt(k) ==
    IF k > Cardinality(BoundaryStarts) THEN Len(text)
    ELSE CHOOSE b \in BoundaryStarts : Cardinality({x \in BoundaryStarts : x < b}) = k - 1

\* The region from the k-th boundary match to the next one, stripped
RegionOfBoundary(k) == strip(SubSeq(text, BoundaryAt(k) + 1, BoundaryAt(k + 1)))

\* C17: for a text with N >= 2 section-boundary matches whose regions are each
\* at most max_size long, the technical segmenter returns N chunks: chunk k is
\* the region from the k-th match to the next match (the last one to the end
\* of the text).
OneChunkPerSection ==
    (/\ pc = "segmented"
     /\ Cardinality(BoundaryStarts) >= 2
     /\ \A k \in 1..Cardinality(BoundaryStarts) :
            Len(RegionOfBoundary(k)) <= chunker.max_size)
        => /\ Len(chunks) = Cardinality(BoundaryStarts)
           /\ \A k \in 1..Cardinality(BoundaryStarts) : chunks[k] = RegionOfBoundary(k)

\* The text before the first boundary match, stripped
LeadingText == strip(SubSeq(text, 1, BoundaryAt(1)))

\* C30: the technical segmenter drops no leading text: when the first
\* section-boundary match is at an offset p > 0 and the text before p is not
\* blank, that text is contained in the chunks returned.
LeadingTextIsKept ==
    (/\ pc = "segmented"
     /\ BoundaryStarts # {}
     /\ BoundaryAt(1) > 0
     /\ LeadingText # <<>>)
        => \E i \in DOMAIN chunks : contains(chunks[i], LeadingText)

-----------------------------------------------------------------------------
(* The classic chunking of the document processor: the loop of               *)
(* DocumentProcessor._create_simple_chunks, one iteration per step           *)

\* A slice index i of a str of length n as Python takes it: a negative index
\* counts from the end, and the result is clipped to 0..n
SliceIndex(i, n) ==
    IF i < 0 THEN (IF i + n < 0 THEN 0 ELSE i + n)
    ELSE IF i > n THEN n ELSE i

\* t[i:j]
Slice(t, i, j) == SubSeq(t, SliceIndex(i, Len(t)) + 1, SliceIndex(j, Len(t)))

\* t.rfind(' ', i, j): the offset of the last space in t[i:j], -1 if none
rfind_in_slice(t, i, j) ==
    LET at == {k \in SliceIndex(i, Len(t))..(SliceIndex(j, Len(t)) - 1) : t[k + 1] = " "}
    IN  IF at = {} THEN -1 ELSE Max(at)

\* DocumentProcessor.__init__: chunk_size and chunk_overlap are stored as given
DocumentProcessor(chunk_size, chunk_overlap) ==
    [chunk_size |-> chunk_size, chunk_overlap |-> chunk_overlap]

\* `end` of one iteration: start + chunk_size, pulled back to the last space
\* after start when the chunk does not reach the end of the text
SimpleChunksEnd(self, t, start) ==
    IF /\ start + self.chunk_size < Len(t)
       /\ rfind_in_slice(t, start, start + self.chunk_size) > start
    THEN rfind_in_slice(t, start, start + self.chunk_size)
    ELSE start + self.chunk_size

\* start = end - self.chunk_overlap if self.chunk_overlap > 0 else end
NextSimpleStart(self, end_) ==
    IF self.chunk_overlap > 0 THEN end_ - self.chunk_overlap ELSE end_

\* The chunks list once the chunk of t[start:end] is appended, if it is not
\* empty
WithSimpleChunk(cs, t, start, end_) ==
    IF strip(Slice(t, start, end_)) # <<>>
    THEN Append(cs, [index |-> Len(cs),
                     text |-> strip(Slice(t, start, end_)),
                     start_pos |-> start,
                     end_pos |-> end_,
                     length |-> Len(strip(Slice(t, start, end_))),
                     chunk_type |-> "simple",
                     quality_score |-> 10])
    ELSE cs

SimpleTextPieces == <<<<"a">>, <<" ">>>>

MaxSimpleTextLen == 6

SimpleTexts == TextsOf(SimpleTextPieces, MaxSimpleTextLen) \ {<<>>}

MaxChunkSize == 4

\* The configurations with 0 <= chunk_overlap < chunk_size
ProcessorConfigs ==
    {p \in [chunk_size : 1..MaxChunkSize, chunk_overlap : 0..(MaxChunkSize - 1)] :
        p.chunk_overlap < p.chunk_size}

\* The iterations of the loop the model follows
MaxSimpleIterations == 8

InitSimpleChunks ==
    /\ pc = "simple_chunks_loop"
    /\ text \in SimpleTexts
    /\ processor \in ProcessorConfigs
    /\ simple_start = 0
    /\ processed_chunks = <<>>
    /\ chunker = NoChunker
    /\ document_type = "auto"
    /\ faults = NoFault
    /\ detected_tables = <<>>
    /\ chunks = <<>>
    /\ overlapped_chunks = <<>>
    /\ final_chunks = <<>>
    /\ instances = <<>>
    /\ calls = <<>>

\* One iteration of `while start < len(text)`
SimpleChunksIteration ==
    /\ pc = "simple_chunks_loop"
    /\ simple_start < Len(text)
    /\ Len(processed_chunks) < MaxSimpleIterations
    /\ \E end_ \in {SimpleChunksEnd(processor, text, simple_start)} :
        /\ processed_chunks' = WithSimpleChunk(processed_chunks, text, simple_start, end_)
        /\ simple_start' = NextSimpleStart(processor, end_)
    /\ UNCHANGED <<pc, text, processor, chunker, document_type, faults, detected_tables, chunks,
                   overlapped_chunks, final_chunks, instances, calls>>

\* The loop is left and the chunks are returned
ReturnSimpleChunks ==
    /\ pc = "simple_chunks_loop"
    /\ simple_start >= Len(text)
    /\ pc' = "simple_chunks_returned"
    /\ UNCHANGED <<text, processor, simple_start, processed_chunks, chunker, document_type,
                   faults, detected_tables, chunks, overlapped_chunks, final_chunks, instances,
                   calls>>

NextSimpleChunks == SimpleChunksIteration \/ ReturnSimpleChunks

SpecSimpleChunks == InitSimpleChunks /\ [][NextSimpleChunks]_vars

\* C29: the classic chunking loop terminates for every non-empty text when
\* 0 <= chunk_overlap < chunk_size: each iteration leaves the start cursor
\* strictly greater than it was, and never negative, also when the end of the
\* chunk is pulled back to a last space within chunk_overlap characters of
\* the start.
StartCursorStrictlyIncreases ==
    [][SimpleChunksIteration => (simple_start' > simple_start /\ simple_start' >= 0)]_vars

=============================================================================
